---- MODULE Spec2Model ----
(***************************************************************************)
(* Model of the request execution core (AirtableCoreClient.requestJson and *)
(* its retry policy) and of the cached read-through / invalidation layer   *)
(* of AirtableRecordsClient over an InMemoryCacheStore.                    *)
(*                                                                         *)
(* Nine specifications share the module:                                   *)
(*   SpecCore    - one AirtableCoreClient, built from a set of options,    *)
(*                 running requestJson calls against a transport whose     *)
(*                 responses are chosen freely.                            *)
(*   SpecRecords - one AirtableRecordsClient with a cache configuration,   *)
(*                 issuing reads and mutations one call at a time.         *)
(*   SpecDelay   - getRetryDelayMs applied to a Retry-After header, an     *)
(*                 attempt number and a value of Math.random.              *)
(*   SpecStore   - one InMemoryCacheStore on its own, with get, set,       *)
(*                 delete and deleteByPrefix calls and a moving clock.     *)
(*   SpecStringify - stableStringify called, once and again, on a value    *)
(*                 of objects and arrays that may share or form cycles.    *)
(*   SpecShared  - clients of several bases, with their own method         *)
(*                 toggles, calling one after the other on a shared store. *)
(*   SpecPages   - listAllRecords and iterateRecords, page by page.        *)
(*   SpecAttachments - transformAttachment of an InMemoryCacheStore.       *)
(*   SpecAsync   - calls of one client in progress side by side on an      *)
(*                 asynchronous store, interleaved at their awaits.        *)
(***************************************************************************)
EXTENDS Integers, Sequences, FiniteSets, TLC

\* ---------------------------------------------------------------------------
\* Optional values: <<>> is "undefined", <<v>> is the value v.
\* ---------------------------------------------------------------------------
Undefined == <<>>

Some(v) == <<v>>

\* The ?? operator of the source: the default when the option is undefined.
Nullish(opt, default) == IF opt = Undefined THEN default ELSE opt[1]

\* ---------------------------------------------------------------------------
\* Strings are sequences of one-character strings, so that prefixes, escaping
\* and key order can be computed.
\* ---------------------------------------------------------------------------
\* The printable ASCII characters in code order; the first has code 32
\* ("GRAVE" stands for the grave accent, code 96).
AsciiTable ==
  <<" ", "!", "\"", "#", "$", "%", "&", "'", "(", ")", "*", "+",
    ",", "-", ".", "/", "0", "1", "2", "3", "4", "5", "6", "7",
    "8", "9", ":", ";", "<", "=", ">", "?", "@", "A", "B", "C",
    "D", "E", "F", "G", "H", "I", "J", "K", "L", "M", "N", "O",
    "P", "Q", "R", "S", "T", "U", "V", "W", "X", "Y", "Z", "[",
    "\\", "]", "^", "_", "GRAVE", "a", "b", "c", "d", "e", "f", "g",
    "h", "i", "j", "k", "l", "m", "n", "o", "p", "q", "r", "s",
    "t", "u", "v", "w", "x", "y", "z", "{", "|", "}", "~">>

CharCode(c) == 31 + (CHOOSE i \in 1..Len(AsciiTable) : AsciiTable[i] = c)

HexDigits == <<"0", "1", "2", "3", "4", "5", "6", "7", "8", "9", "A", "B", "C", "D", "E", "F">>

\* Characters encodeURIComponent leaves alone: A-Z a-z 0-9 - _ . ! ~ * ' ( )
UriUnreserved ==
  {AsciiTable[i] : i \in (17..26) \cup (34..59) \cup (66..91)}
    \cup {"-", "_", ".", "!", "~", "*", "'", "(", ")"}

RECURSIVE encodeURIComponent(_)
encodeURIComponent(s) ==
  IF s = <<>> THEN <<>>
  ELSE LET c == Head(s)
           n == CharCode(c)
           enc == IF c \in UriUnreserved THEN <<c>>
                  ELSE <<"%", HexDigits[(n \div 16) + 1], HexDigits[(n % 16) + 1]>>
       IN enc \o encodeURIComponent(Tail(s))

\* String.prototype.startsWith
startsWith(s, prefix) ==
  /\ Len(prefix) <= Len(s)
  /\ SubSeq(s, 1, Len(prefix)) = prefix

\* Order of two strings by UTF-16 code units, as Array.prototype.sort() uses.
RECURSIVE StrLess(_, _)
StrLess(a, b) ==
  IF b = <<>> THEN FALSE
  ELSE IF a = <<>> THEN TRUE
  ELSE IF Head(a) = Head(b) THEN StrLess(Tail(a), Tail(b))
  ELSE CharCode(Head(a)) < CharCode(Head(b))

\* ---------------------------------------------------------------------------
\* JavaScript values, as far as cache keys need them: [t, v] with
\*   t = "undefined" | "null" | "bool" | "num" | "str" | "arr" | "obj" | "ref"
\*       | "seen";
\* an array's v is the sequence of its items, a plain object's v the sequence
\* of its properties [k, v] in insertion order.  "seen" is a further
\* occurrence of an object or array that the traversal has already visited
\* (an ancestor: a circular structure).
\* ---------------------------------------------------------------------------
JsUndefined == [t |-> "undefined", v |-> 0]

JsNull == [t |-> "null", v |-> 0]

JsStr(s) == [t |-> "str", v |-> s]

JsNum(n) == [t |-> "num", v |-> n]

JsArr(items) == [t |-> "arr", v |-> items]

JsObj(props) == [t |-> "obj", v |-> props]

JsSeen == [t |-> "seen", v |-> <<>>]

\* A reference to the object or array number i of the heap.
JsRef(i) == [t |-> "ref", v |-> i]

\* An object that is neither a plain object nor an array (a class instance),
\* with its own enumerable properties [k, v] in insertion order.
JsInst(props) == [t |-> "inst", v |-> props]

\* The TypeError normalize throws, in place of its result.
JsTypeError == [t |-> "TypeError", v |-> <<>>]

\* The TypeError in place of a key.
ThrownTypeError == <<"TypeError">>

\* The TypeError of JSON.stringify itself, whose message is the host's.
ThrownJsonTypeError == <<"TypeError of JSON.stringify">>

\* !isPlainObject(val) && !Array.isArray(val), for an object val.
NonPlain(node) == node.t = "inst"

\* Object.keys(o).sort(): insertion sort of the property names.
RECURSIVE InsertSorted(_, _)
InsertSorted(k, sorted) ==
  IF sorted = <<>> THEN <<k>>
  ELSE IF StrLess(k, Head(sorted)) THEN <<k>> \o sorted
  ELSE <<Head(sorted)>> \o InsertSorted(k, Tail(sorted))

\* Mutant: the property names are left in insertion order.
SortKeys_InsertionOrder(keys) == keys

RECURSIVE SortKeys(_)
SortKeys(keys) ==
  IF keys = <<>> THEN <<>> ELSE InsertSorted(Head(keys), SortKeys(Tail(keys)))

PropIndex(props, k) == CHOOSE i \in 1..Len(props) : props[i].k = k

\* normalize of stableStringify, with the WeakSet seen threaded through the
\* traversal: the result is [val, seen], val being JsTypeError when the
\* traversal throws.  Arrays keep their order, with undefined items turned
\* into null; plain objects get their keys sorted and their undefined
\* properties dropped; an object or array that is already in seen throws;
\* everything else is returned as it is.  heap[i] is the object or array a
\* reference JsRef(i) stands for; an object or array written in place is one
\* that nothing else refers to.
RECURSIVE normalize(_, _, _)
RECURSIVE normalizeEach(_, _, _)
RECURSIVE normalizeNode(_, _, _)
normalize(heap, val, seen) ==
  IF val.t = "seen" THEN [val |-> JsTypeError, seen |-> seen]
  ELSE IF val.t = "ref"
    THEN IF NonPlain(heap[val.v]) THEN [val |-> val, seen |-> seen]
         ELSE IF val.v \in seen                               \* seen.has(val)
           THEN [val |-> JsTypeError, seen |-> seen]
           ELSE normalizeNode(heap, heap[val.v], seen \cup {val.v})
  ELSE IF val.t \in {"arr", "obj"} THEN normalizeNode(heap, val, seen)
  ELSE [val |-> val, seen |-> seen]

\* The values of vals normalized from left to right.
normalizeEach(heap, vals, seen) ==
  IF vals = <<>> THEN [vals |-> <<>>, seen |-> seen, thrown |-> FALSE]
  ELSE LET first == normalize(heap, Head(vals), seen)
       IN IF first.val.t = JsTypeError.t
            THEN [vals |-> <<>>, seen |-> first.seen, thrown |-> TRUE]
            ELSE LET rest == normalizeEach(heap, Tail(vals), first.seen)
                 IN [vals |-> <<first.val>> \o rest.vals, seen |-> rest.seen,
                     thrown |-> rest.thrown]

normalizeNode(heap, node, seen) ==
  IF node.t = "arr"
    THEN LET items == [i \in 1..Len(node.v) |->
                        IF node.v[i].t = "undefined" THEN JsNull ELSE node.v[i]]
             done == normalizeEach(heap, items, seen)
         IN IF done.thrown THEN [val |-> JsTypeError, seen |-> done.seen]
            ELSE [val |-> JsArr(done.vals), seen |-> done.seen]
    ELSE LET keys == SortKeys([i \in 1..Len(node.v) |-> node.v[i].k])
             Kept(k) == node.v[PropIndex(node.v, k)].v.t # "undefined"
             kept == SelectSeq(keys, Kept)
             done == normalizeEach(heap, [i \in 1..Len(kept) |->
                                            node.v[PropIndex(node.v, kept[i])].v], seen)
         IN IF done.thrown THEN [val |-> JsTypeError, seen |-> done.seen]
            ELSE [val |-> JsObj([i \in 1..Len(kept) |-> [k |-> kept[i], v |-> done.vals[i]]]),
                  seen |-> done.seen]

Digits == <<"0", "1", "2", "3", "4", "5", "6", "7", "8", "9">>

RECURSIVE NumToStr(_)
NumToStr(n) ==
  IF n < 10 THEN <<Digits[n + 1]>>
  ELSE NumToStr(n \div 10) \o <<Digits[(n % 10) + 1]>>

RECURSIVE JsonEscape(_)
JsonEscape(s) ==
  IF s = <<>> THEN <<>>
  ELSE (IF Head(s) \in {"\"", "\\"} THEN <<"\\", Head(s)>> ELSE <<Head(s)>>)
         \o JsonEscape(Tail(s))

JsonString(s) == <<"\"">> \o JsonEscape(s) \o <<"\"">>

\* JSON.stringify finds an object or array of val among the ones it is
\* inside of (stack) and throws its TypeError.
RECURSIVE JsonCircular(_, _, _)
JsonCircular(heap, val, stack) ==
  CASE val.t = "ref" ->
         \/ val.v \in stack
         \/ JsonCircular(heap, heap[val.v], stack \cup {val.v})
    [] val.t = "arr" ->
         \E i \in 1..Len(val.v) : JsonCircular(heap, val.v[i], stack)
    [] val.t \in {"obj", "inst"} ->
         \E i \in 1..Len(val.v) : JsonCircular(heap, val.v[i].v, stack)
    [] OTHER -> FALSE

JsonKept(prop) == prop.v.t # "undefined"

\* JSON.stringify of a value without a circular reference, the properties of
\* an object in insertion order; <<>> stands for its undefined result.
RECURSIVE JsonStringify(_, _)
RECURSIVE JsonItems(_, _)
RECURSIVE JsonProps(_, _)
JsonStringify(heap, val) ==
  CASE val.t = "undefined" -> <<>>
    [] val.t = "null" -> <<"n", "u", "l", "l">>
    [] val.t = "bool" -> IF val.v THEN <<"t", "r", "u", "e">> ELSE <<"f", "a", "l", "s", "e">>
    [] val.t = "num" -> NumToStr(val.v)
    [] val.t = "str" -> JsonString(val.v)
    [] val.t = "ref" -> JsonStringify(heap, heap[val.v])
    [] val.t = "arr" -> <<"[">> \o JsonItems(heap, val.v) \o <<"]">>
    [] val.t \in {"obj", "inst"} ->
         <<"{">> \o JsonProps(heap, SelectSeq(val.v, JsonKept)) \o <<"}">>

JsonItems(heap, items) ==
  IF items = <<>> THEN <<>>
  ELSE (IF Head(items).t = "undefined" THEN JsonStringify(heap, JsNull)
        ELSE JsonStringify(heap, Head(items)))
         \o (IF Len(items) > 1 THEN <<",">> ELSE <<>>) \o JsonItems(heap, Tail(items))

JsonProps(heap, props) ==
  IF props = <<>> THEN <<>>
  ELSE JsonString(Head(props).k) \o <<":">> \o JsonStringify(heap, Head(props).v)
         \o (IF Len(props) > 1 THEN <<",">> ELSE <<>>) \o JsonProps(heap, Tail(props))

\* Mutant: a TypeError of normalize is turned into the empty string.
stableStringifyIn_EmptyOnThrow(heap, value) ==
  LET normalized == normalize(heap, value, {}).val
  IN IF normalized.t = JsTypeError.t THEN <<>>
     ELSE IF JsonCircular(heap, normalized, {}) THEN ThrownJsonTypeError
     ELSE JsonStringify(heap, normalized)

\* stableStringify of a value whose references point into heap:
\* JSON.stringify(normalize(value)) ?? '' with a new, empty seen, or the
\* TypeError of normalize or of JSON.stringify.
stableStringifyIn(heap, value) ==
  LET normalized == normalize(heap, value, {}).val
  IN IF normalized.t = JsTypeError.t THEN ThrownTypeError
     ELSE IF JsonCircular(heap, normalized, {}) THEN ThrownJsonTypeError
     ELSE JsonStringify(heap, normalized)

\* stableStringify of a value written in place.
stableStringify(value) == stableStringifyIn(<<>>, value)

\* ---------------------------------------------------------------------------
\* Cache keys and prefixes
\* ---------------------------------------------------------------------------
\* params ?? {} of the key helpers; Undefined is an omitted params argument.
ParamsOrEmpty(params) == IF params = Undefined THEN JsObj(<<>>) ELSE params[1]

tablePrefix(baseId, tableIdOrName) ==
  <<"r", "e", "c", "o", "r", "d", "s", ":", "l", "i", "s", "t", ":">> \o baseId \o <<":">>
    \o encodeURIComponent(tableIdOrName) \o <<":">>

recordPrefix(baseId, tableIdOrName, recordId) ==
  <<"r", "e", "c", "o", "r", "d", "s", ":", "g", "e", "t", ":">> \o baseId \o <<":">>
    \o encodeURIComponent(tableIdOrName) \o <<":">> \o recordId \o <<":">>

listKey(baseId, tableIdOrName, params) ==
  IF stableStringify(ParamsOrEmpty(params)) = ThrownTypeError THEN ThrownTypeError
  ELSE tablePrefix(baseId, tableIdOrName) \o stableStringify(ParamsOrEmpty(params))

recordKey(baseId, tableIdOrName, recordId, params) ==
  IF stableStringify(ParamsOrEmpty(params)) = ThrownTypeError THEN ThrownTypeError
  ELSE recordPrefix(baseId, tableIdOrName, recordId)
         \o stableStringify(ParamsOrEmpty(params))

\* The expectations of the helpers' unit tests.
KeyTests ==
  /\ stableStringify(JsObj(<<[k |-> <<"b">>, v |-> JsNum(1)], [k |-> <<"a">>, v |-> JsNum(2)]>>))
       = <<"{", "\"", "a", "\"", ":", "2", ",", "\"", "b", "\"", ":", "1", "}">>
  /\ tablePrefix(<<"a", "p", "p", "1", "2", "3">>, <<"M", "y", " ", "T", "a", "b", "l", "e", "/", "x">>)
       = <<"r", "e", "c", "o", "r", "d", "s", ":", "l", "i", "s", "t", ":", "a", "p", "p", "1", "2", "3", ":", "M", "y", "%", "2", "0", "T", "a", "b", "l", "e", "%", "2", "F", "x", ":">>
  /\ recordPrefix(<<"a", "p", "p", "1", "2", "3">>, <<"M", "y", " ", "T", "a", "b", "l", "e">>, <<"r", "e", "c", "/", "w", "i", "t", "h", "/", "s", "l", "a", "s", "h">>)
       = <<"r", "e", "c", "o", "r", "d", "s", ":", "g", "e", "t", ":", "a", "p", "p", "1", "2", "3", ":", "M", "y", "%", "2", "0", "T", "a", "b", "l", "e", ":", "r", "e", "c", "/", "w", "i", "t", "h", "/", "s", "l", "a", "s", "h", ":">>
  /\ listKey(<<"a", "p", "p", "1", "2", "3">>, <<"T", "a", "s", "k", "s">>, Undefined) = <<"r", "e", "c", "o", "r", "d", "s", ":", "l", "i", "s", "t", ":", "a", "p", "p", "1", "2", "3", ":", "T", "a", "s", "k", "s", ":", "{", "}">>
  /\ recordKey(<<"a", "p", "p", "1", "2", "3">>, <<"T", "a", "s", "k", "s">>, <<"r", "e", "c", "4", "5", "6">>, Some(JsObj(<<>>)))
       = <<"r", "e", "c", "o", "r", "d", "s", ":", "g", "e", "t", ":", "a", "p", "p", "1", "2", "3", ":", "T", "a", "s", "k", "s", ":", "r", "e", "c", "4", "5", "6", ":", "{", "}">>

\* ---------------------------------------------------------------------------
\* Core client: options and their defaults
\* ---------------------------------------------------------------------------
\* Largest explicit maxRetries option the model constructs clients with.
MaxRetriesOption == 3

DEFAULT_MAX_RETRIES == 5

DEFAULT_RETRY_ON_STATUSES == {429, 500, 502, 503, 504}

DEFAULT_NO_RETRY_IF_RATE_LIMITED == TRUE

DEFAULT_RETRY_INITIAL_DELAY_MS == 500

\* Statuses the transport may answer with.
Statuses == {200, 204, 404, 429, 500}

\* Statuses a caller may list in options.retryOnStatuses (a number[]).
RetryStatusChoices == {200, 429, 500}

\* Body kinds of a response: empty text, valid JSON text, text that is not JSON.
Bodies == {"empty", "json", "text"}

Responses == [status : Statuses, isJson : BOOLEAN, body : Bodies]

CoreOptions ==
  [noRetryIfRateLimited : {Undefined, Some(TRUE), Some(FALSE)},
   maxRetries : {Undefined} \cup {Some(n) : n \in 0..MaxRetriesOption},
   retryOnStatuses : {Undefined} \cup {Some(S) : S \in SUBSET RetryStatusChoices},
   retryInitialDelayMs : {Undefined}]

VARIABLES
  options,     \* the AirtableClientOptions the core client was constructed with
  pc,          \* position of the requestJson call: "idle", "loop" or "done"
  attempt,     \* requestJson's local attempt counter
  calls,       \* number of fetchImpl calls of the current requestJson call
  log,         \* statuses the transport returned to the current call, in order
  outcome,     \* how the current requestJson call settled
  response,    \* the response the transport returned last (NoResponse before any)
  delay        \* the last getRetryDelayMs call: its arguments and its result

coreVars == <<options, pc, attempt, calls, log, outcome, response, delay>>

\* Fields the constructor derives from the options.
noRetryIfRateLimited ==
  Nullish(options.noRetryIfRateLimited, DEFAULT_NO_RETRY_IF_RATE_LIMITED)

maxRetries == Nullish(options.maxRetries, DEFAULT_MAX_RETRIES)

retryOnStatuses == Nullish(options.retryOnStatuses, DEFAULT_RETRY_ON_STATUSES)

retryInitialDelayMs ==
  Nullish(options.retryInitialDelayMs, DEFAULT_RETRY_INITIAL_DELAY_MS)

\* ---------------------------------------------------------------------------
\* Core client: retry decision and response interpretation
\* ---------------------------------------------------------------------------
\* Mutant: the rate-limit switch is ignored.
shouldRetry_IgnoresRateLimitSwitch(status, att) ==
  IF att >= maxRetries THEN FALSE
  ELSE status \in retryOnStatuses

shouldRetry(status, att) ==
  IF att >= maxRetries THEN FALSE
  ELSE IF noRetryIfRateLimited /\ status = 429 THEN FALSE
  ELSE status \in retryOnStatuses

NoOutcome == [kind |-> "none", status |-> 0, value |-> "none"]

Resolved(status, value) == [kind |-> "resolved", status |-> status, value |-> value]

\* An AirtableError carrying the status and the payload ("none" when undefined).
AirtableError(status, payload) ==
  [kind |-> "AirtableError", status |-> status, value |-> payload]

SyntaxError(status) == [kind |-> "SyntaxError", status |-> status, value |-> "none"]

responseOk(status) == status >= 200 /\ status <= 299

handleResponse(resp) ==
  IF resp.status = 204 THEN Resolved(204, "undefined")
  ELSE IF resp.isJson /\ resp.body = "text"
    THEN SyntaxError(resp.status)          \* JSON.parse throws
  ELSE LET data == IF resp.isJson /\ resp.body # "empty"
                     THEN "parsed" ELSE resp.body
       IN IF responseOk(resp.status) THEN Resolved(resp.status, data)
          ELSE AirtableError(resp.status,
                             IF resp.isJson /\ data = "parsed"
                               THEN "payload" ELSE "none")

\* ---------------------------------------------------------------------------
\* InMemoryCacheStore: a Map in insertion order (the last entry is the most
\* recently used) of entries [key, value, expiresAt].
\* ---------------------------------------------------------------------------
Entry(key, value, expiresAt) == [key |-> key, value |-> value, expiresAt |-> expiresAt]

\* entry.expiresAt && entry.expiresAt < now
Expired(entry, t) ==
  /\ entry.expiresAt # Undefined
  /\ entry.expiresAt[1] # 0
  /\ entry.expiresAt[1] < t

HasKey(m, key) == \E i \in 1..Len(m) : m[i].key = key

IndexOf(m, key) == CHOOSE i \in 1..Len(m) : m[i].key = key

RemoveAt(m, i) == SubSeq(m, 1, i - 1) \o SubSeq(m, i + 1, Len(m))

\* Map.prototype.delete
MapDelete(m, key) == IF HasKey(m, key) THEN RemoveAt(m, IndexOf(m, key)) ELSE m

\* Mutant: a hit does not move the key to the end of the Map.
get_KeepsPosition(m, key, t) ==
  IF ~HasKey(m, key) THEN [map |-> m, value |-> Undefined]
  ELSE LET entry == m[IndexOf(m, key)]
       IN IF Expired(entry, t)
            THEN [map |-> MapDelete(m, key), value |-> Undefined]
            ELSE [map |-> m, value |-> Some(entry.value)]

\* Mutant: the expiry of the entry is not checked.
get_IgnoresExpiry(m, key, t) ==
  IF ~HasKey(m, key) THEN [map |-> m, value |-> Undefined]
  ELSE LET entry == m[IndexOf(m, key)]
       IN [map |-> Append(MapDelete(m, key), entry), value |-> Some(entry.value)]

\* get(key): [map, value]; value is Undefined on a miss or an expired entry.
get(m, key, t) ==
  IF ~HasKey(m, key) THEN [map |-> m, value |-> Undefined]
  ELSE LET entry == m[IndexOf(m, key)]
       IN IF Expired(entry, t)
            THEN [map |-> MapDelete(m, key), value |-> Undefined]
            ELSE [map |-> Append(MapDelete(m, key), entry), value |-> Some(entry.value)]

\* Mutant: expired entries are not looked for, the first key is evicted.
evictOne_LruOnly(m, t) == IF m # <<>> THEN Tail(m) ELSE m

\* evictOne(now): the first expired entry if there is one, else the first key.
evictOne(m, t) ==
  IF \E i \in 1..Len(m) : Expired(m[i], t)
    THEN RemoveAt(m, CHOOSE i \in 1..Len(m) :
                       Expired(m[i], t) /\ \A j \in 1..(i - 1) : ~Expired(m[j], t))
  ELSE IF m # <<>> THEN Tail(m)
  ELSE m

\* Mutant: a set at capacity evicts also when the key is already present.
set_EvictsOnUpdate(m, maxSize, key, value, ttlMs, t) ==
  LET expiresAt == IF ttlMs # Undefined THEN Some(t + ttlMs[1]) ELSE Undefined
      kept == MapDelete(m, key)
  IN Append(IF Len(m) >= maxSize THEN evictOne(kept, t) ELSE kept,
            Entry(key, value, expiresAt))

\* Mutant: a set without ttlMs on a present key keeps the earlier expiry.
set_KeepsExpiry(m, maxSize, key, value, ttlMs, t) ==
  LET expiresAt == IF ttlMs # Undefined THEN Some(t + ttlMs[1])
                   ELSE IF HasKey(m, key) THEN m[IndexOf(m, key)].expiresAt
                   ELSE Undefined
  IN IF HasKey(m, key)
       THEN Append(MapDelete(m, key), Entry(key, value, expiresAt))
       ELSE Append(IF Len(m) >= maxSize THEN evictOne(m, t) ELSE m,
                   Entry(key, value, expiresAt))

\* Mutant: the entry is inserted first and the eviction runs afterwards.
set_EvictsAfterInsert(m, maxSize, key, value, ttlMs, t) ==
  LET expiresAt == IF ttlMs # Undefined THEN Some(t + ttlMs[1]) ELSE Undefined
      inserted == Append(MapDelete(m, key), Entry(key, value, expiresAt))
  IN IF ~HasKey(m, key) /\ Len(inserted) > maxSize THEN evictOne(inserted, t)
     ELSE inserted

\* Mutant: a set on a present key leaves the entry as it is.
set_FirstWriteWins(m, maxSize, key, value, ttlMs, t) ==
  LET expiresAt == IF ttlMs # Undefined THEN Some(t + ttlMs[1]) ELSE Undefined
  IN IF HasKey(m, key) THEN m
     ELSE Append(IF Len(m) >= maxSize THEN evictOne(m, t) ELSE m,
                 Entry(key, value, expiresAt))

\* set(key, value, ttlMs) of a store of capacity maxSize at time t.
set(m, maxSize, key, value, ttlMs, t) ==
  LET expiresAt == IF ttlMs # Undefined THEN Some(t + ttlMs[1]) ELSE Undefined
  IN IF HasKey(m, key)
       THEN Append(MapDelete(m, key), Entry(key, value, expiresAt))
       ELSE Append(IF Len(m) >= maxSize THEN evictOne(m, t) ELSE m,
                   Entry(key, value, expiresAt))

\* delete(key)
delete(m, key) == MapDelete(m, key)

\* Mutant: the scan stops after the first key it deletes.
deleteByPrefix_FirstMatchOnly(m, prefix) ==
  IF \E i \in 1..Len(m) : startsWith(m[i].key, prefix)
    THEN RemoveAt(m, CHOOSE i \in 1..Len(m) :
                       /\ startsWith(m[i].key, prefix)
                       /\ \A j \in 1..(i - 1) : ~startsWith(m[j].key, prefix))
    ELSE m

\* Mutant: the prefix match is replaced by key equality.
deleteByPrefix_ExactKeyOnly(m, prefix) ==
  LET Keep(e) == e.key # prefix IN SelectSeq(m, Keep)

deleteByPrefix(m, prefix) ==
  LET Keep(e) == ~startsWith(e.key, prefix) IN SelectSeq(m, Keep)

\* ---------------------------------------------------------------------------
\* Records client: inputs
\* ---------------------------------------------------------------------------
MAX_RECORDS_PER_BATCH == 10

\* Capacity of the largest store the model constructs.
MaxStoreSize == 2

\* Number of distinct results the remote can answer a read with.
NumValues == 2

\* The clock advances by TickMs, up to MaxNow.
TickMs == 1500

MaxNow == 1500

Values == 1..NumValues

baseId == <<"b">>

\* A table name that encodeURIComponent has to escape.
TableT == <<"T", "/">>

Tables == {TableT}

RecR == <<"r">>

RecRC == <<"r", ":">>

RecordIds == {RecR, RecRC}

CellFormatJson == JsObj(<<[k |-> <<"c", "e", "l", "l", "F", "o", "r", "m", "a", "t">>, v |-> JsStr(<<"j", "s", "o", "n">>)]>>)

\* const p = {}; p.self = p
CircularParams == JsObj(<<[k |-> <<"s", "e", "l", "f">>, v |-> JsSeen]>>)

\* The params argument of a read: omitted, {}, { cellFormat: 'json' } or a
\* circular object.
ParamsChoices == {Undefined, Some(JsObj(<<>>)), Some(CellFormatJson), Some(CircularParams)}

\* The params the model calls listRecords and getRecord with.
ListParamsChoices == {Undefined, Some(JsObj(<<>>)), Some(CircularParams)}

GetParamsChoices == {Undefined, Some(CellFormatJson), Some(CircularParams)}

\* Record id lists of the batch operations; the last one spans two batches,
\* with RecR alone in the second.
ElevenIds == [i \in 1..(MAX_RECORDS_PER_BATCH + 1) |->
               IF i <= MAX_RECORDS_PER_BATCH THEN RecRC ELSE RecR]

IdLists == {<<>>, <<RecR>>, ElevenIds}

\* The keys and prefixes of these inputs, computed once.
ListKeyOf == [t \in Tables, p \in ParamsChoices |-> listKey(baseId, t, p)]

RecordKeyOf ==
  [t \in Tables, r \in RecordIds, p \in ParamsChoices |-> recordKey(baseId, t, r, p)]

TablePrefixOf == [t \in Tables |-> tablePrefix(baseId, t)]

RecordPrefixOf == [t \in Tables, r \in RecordIds |-> recordPrefix(baseId, t, r)]

\* ---------------------------------------------------------------------------
\* Records client: cache options
\*   store          "none" (no store), "memory" (an InMemoryCacheStore) or
\*                  "custom" (a store whose methods may throw)
\*   deleteByPrefix whether the store implements deleteByPrefix
\* ---------------------------------------------------------------------------
OptBool == {Undefined, Some(FALSE)}

AllCacheOpts ==
  [store : {"none", "memory", "custom"},
   deleteByPrefix : BOOLEAN,
   maxSize : 0..MaxStoreSize,
   listRecords : OptBool,
   listAllRecords : {Undefined},
   getRecord : OptBool,
   defaultTtlMs : {Undefined, Some(1000)},
   failOnCacheError : {Undefined, Some(TRUE)},
   onError : BOOLEAN]

BaseCacheOpts ==
  [store |-> "memory", deleteByPrefix |-> TRUE, maxSize |-> MaxStoreSize,
   listRecords |-> Undefined, listAllRecords |-> Undefined, getRecord |-> Undefined,
   defaultTtlMs |-> Some(1000), failOnCacheError |-> Undefined, onError |-> TRUE]

\* Capacity of the store in the configurations that vary another option.
SmallStoreSize == 1

SmallCacheOpts == [BaseCacheOpts EXCEPT !.maxSize = SmallStoreSize]

CustomCacheOpts == [SmallCacheOpts EXCEPT !.store = "custom"]

Deviations(c, from) == Cardinality({f \in DOMAIN c : c[f] # from[f]})

\* The configurations the model constructs clients with: no store at all; an
\* InMemoryCacheStore (which never throws) of every capacity up to
\* MaxStoreSize; a small InMemoryCacheStore with one of listRecords, getRecord
\* and defaultTtlMs changed; a small custom store with at most one of
\* deleteByPrefix, failOnCacheError and onError changed, or with
\* failOnCacheError set and no deleteByPrefix.
CacheOptsChoices ==
  {c \in AllCacheOpts :
     \/ c = [BaseCacheOpts EXCEPT !.store = "none"]
     \/ c = [BaseCacheOpts EXCEPT !.maxSize = c.maxSize]
     \/ /\ Deviations(c, SmallCacheOpts) = 1
        /\ \E f \in {"listRecords", "getRecord", "defaultTtlMs"} : c[f] # SmallCacheOpts[f]
     \/ /\ \/ Deviations(c, CustomCacheOpts) <= 1
           \/ c.failOnCacheError = Some(TRUE) /\ ~c.deleteByPrefix /\ c.onError
        /\ \A f \in {"store", "maxSize", "listRecords", "getRecord", "defaultTtlMs"} :
             c[f] = CustomCacheOpts[f]}

VARIABLES
  cacheOpts,   \* the AirtableRecordsCacheOptions of the records client
  map,         \* the store's Map
  now,         \* Date.now()
  call         \* the last completed records-client call, or NoCall

recVars == <<cacheOpts, map, now, call>>

VARIABLES
  storeCall,   \* the last InMemoryCacheStore method call: arguments, result, store before
  recency,     \* keys in the order of their latest successful get or set (history)
  stringified  \* the last stableStringify call: its argument and its result

VARIABLES
  client,      \* the records client that makes the calls on a store shared by several
  paging,      \* the listAllRecords / iterateRecords call in progress
  memo,        \* the attachments an InMemoryCacheStore has memoized, and the last call
  tasks        \* calls in progress side by side on an asynchronous store

auxVars == <<client, paging, memo, tasks>>

utilVars == <<storeCall, recency, stringified, auxVars>>

NoClient == [base |-> <<>>]

NoPaging == [op |-> "none"]

NoMemo == [seen |-> <<>>, history |-> <<>>]

NoTasks == [procs |-> <<>>, clock |-> 0, updatedAt |-> 0]

AuxIdle ==
  /\ client = NoClient
  /\ paging = NoPaging
  /\ memo = NoMemo
  /\ tasks = NoTasks

NoStoreCall == [op |-> "none"]

NoStringified == [done |-> FALSE]

\* The variables above in the specifications that do not use them.
UtilIdle ==
  /\ storeCall = NoStoreCall
  /\ recency = <<>>
  /\ stringified = NoStringified
  /\ AuxIdle

NoCall == [op |-> "none"]

NoDelay == [computed |-> FALSE]

vars == <<options, pc, attempt, calls, log, outcome, response, delay, cacheOpts, map, now, call,
          storeCall, recency, stringified, client, paging, memo, tasks>>

\* ---------------------------------------------------------------------------
\* Core client: requestJson
\* ---------------------------------------------------------------------------
NoResponse == [status |-> 0, isJson |-> FALSE, body |-> "empty"]

InitCore ==
  /\ options \in CoreOptions
  /\ delay = NoDelay
  /\ UtilIdle
  /\ pc = "idle"
  /\ attempt = 0
  /\ calls = 0
  /\ log = <<>>
  /\ outcome = NoOutcome
  /\ response = NoResponse
  /\ cacheOpts = BaseCacheOpts
  /\ map = <<>>
  /\ now = 0
  /\ call = NoCall

\* A caller invokes requestJson: headers are composed and attempt starts at 0.
requestJson ==
  /\ pc \in {"idle", "done"}
  /\ pc' = "loop"
  /\ attempt' = 0
  /\ calls' = 0
  /\ log' = <<>>
  /\ outcome' = NoOutcome
  /\ response' = NoResponse
  /\ UNCHANGED <<options, delay, utilVars, recVars>>

\* One iteration of the while loop: the transport answers with resp; the
\* call either settles through handleResponse or sleeps and counts an attempt.
Fetch(resp) ==
  /\ pc = "loop"
  /\ calls' = calls + 1
  /\ log' = Append(log, resp.status)
  /\ response' = resp
  /\ IF ~shouldRetry(resp.status, attempt)
       THEN /\ outcome' = handleResponse(resp)
            /\ pc' = "done"
            /\ attempt' = attempt
       ELSE /\ attempt' = attempt + 1
            /\ UNCHANGED <<pc, outcome>>
  /\ UNCHANGED <<options, delay, utilVars, recVars>>

FetchAny == \E resp \in Responses : Fetch(resp)

NextCore == requestJson \/ FetchAny

SpecCore == InitCore /\ [][NextCore]_vars

\* ---------------------------------------------------------------------------
\* Properties of the core client (checked under SpecCore)
\* ---------------------------------------------------------------------------
Last(s) == s[Len(s)]

\* A status is retry-eligible while attempts remain: it is listed, and it is
\* not a 429 excluded by the rate-limit switch.
RetryEligible(status) ==
  /\ status \in retryOnStatuses
  /\ ~(noRetryIfRateLimited /\ status = 429)

\* C1: with only retryOnStatuses (containing 429) and maxRetries = 3 configured
\* and every other option at its default, a transport answering 429 to the
\* first call and 200 to the second makes requestJson resolve after exactly
\* 2 transport calls.
C1_Retries429ByDefault ==
  ( /\ options.noRetryIfRateLimited = Undefined
    /\ options.maxRetries = Some(3)
    /\ options.retryOnStatuses = Some({429})
    /\ pc = "done"
    /\ log[1] = 429
    /\ (Len(log) >= 2 => log[2] = 200) )
  => (outcome.kind = "resolved" /\ calls = 2)

\* C2: a response is retried iff attempt < maxRetries, its status is listed in
\* retryOnStatuses, and it is not a 429 while noRetryIfRateLimited is on; the
\* switch is on unless set to false, and then a first 429 ends the call after
\* a single transport call.
C2_SwitchOn == options.noRetryIfRateLimited # Some(FALSE)

C3_Original ==
  /\ attempt <= maxRetries
  /\ calls <= maxRetries + 1
  /\ ( (pc = "done" /\ \A i \in 1..Len(log) : RetryEligible(log[i]))
       => ( /\ calls = maxRetries + 1
            /\ outcome.kind = "AirtableError"
            /\ outcome.status = Last(log) ) )

\* The part of C3 that holds: after exactly maxRetries + 1 calls the last
\* response is interpreted; the call rejects with the typed API error of that
\* response when its status is not 2xx and its body, if declared JSON, parses.
C3_RetryTermination ==
  /\ attempt <= maxRetries
  /\ calls <= maxRetries + 1
  /\ ( (pc = "done" /\ \A i \in 1..Len(log) : RetryEligible(log[i]))
       => ( /\ calls = maxRetries + 1
            /\ outcome.kind # "none"
            /\ outcome.status = Last(log)
            /\ ( (~responseOk(Last(log)) /\ ~(response.isJson /\ response.body = "text"))
                 => outcome.kind = "AirtableError" ) ) )

C3_Witness ==
  /\ pc = "done"
  /\ maxRetries >= 2
  /\ \A i \in 1..Len(log) : RetryEligible(log[i])
  /\ calls = maxRetries + 1
  /\ outcome.kind = "AirtableError"

hasStore == cacheOpts.store # "none"

hasDeleteByPrefix == hasStore /\ cacheOpts.deleteByPrefix

storeMayThrow == cacheOpts.store = "custom"

\* ---------------------------------------------------------------------------
\* Records client: cache helpers.  A helper takes and returns the progress of
\* the call: st.map the store, st.storeCalls the store methods invoked (and
\* whether each threw), st.onErrors the onError invocations, st.thrown whether
\* an error propagates.
\* ---------------------------------------------------------------------------
Progress(m) == [map |-> m, storeCalls |-> <<>>, onErrors |-> <<>>, thrown |-> FALSE]

StoreCall(method, arg, ttl, threw) ==
  [method |-> method, arg |-> arg, ttl |-> ttl, threw |-> threw]

\* Mutant: the onError hook is not called.
handleCacheError_SkipsOnError(st, ctx) ==
  [st EXCEPT !.thrown = @ \/ Nullish(cacheOpts.failOnCacheError, FALSE)]

\* Mutant: the error is swallowed whatever failOnCacheError says.
handleCacheError_AlwaysSwallows(st, ctx) ==
  [st EXCEPT !.onErrors = IF cacheOpts.onError THEN Append(@, ctx) ELSE @]

\* Mutant: the error is rethrown whatever failOnCacheError says.
handleCacheError_AlwaysThrows(st, ctx) ==
  [st EXCEPT !.onErrors = IF cacheOpts.onError THEN Append(@, ctx) ELSE @,
             !.thrown = TRUE]

handleCacheError(st, ctx) ==
  [st EXCEPT !.onErrors = IF cacheOpts.onError THEN Append(@, ctx) ELSE @,
             !.thrown = @ \/ Nullish(cacheOpts.failOnCacheError, FALSE)]

\* Mutant: what the store answers is dropped.
cacheGet_DropsValue(st, key, throws) ==
  IF ~hasStore THEN [st |-> st, value |-> Undefined]
  ELSE LET st1 == [st EXCEPT !.storeCalls = Append(@, StoreCall("get", key, Undefined, throws))]
       IN IF throws
            THEN [st |-> handleCacheError(st1, [op |-> "get", arg |-> key]),
                  value |-> Undefined]
            ELSE [st |-> [st1 EXCEPT !.map = get(@, key, now).map], value |-> Undefined]

\* cacheGet: [st, value]
cacheGet(st, key, throws) ==
  IF ~hasStore THEN [st |-> st, value |-> Undefined]
  ELSE LET st1 == [st EXCEPT !.storeCalls = Append(@, StoreCall("get", key, Undefined, throws))]
       IN IF throws
            THEN [st |-> handleCacheError(st1, [op |-> "get", arg |-> key]),
                  value |-> Undefined]
            ELSE LET r == get(st1.map, key, now)
                 IN [st |-> [st1 EXCEPT !.map = r.map], value |-> r.value]

\* Mutant: the value is written without the configured TTL.
cacheSet_DropsTtl(st, key, value, throws) ==
  IF ~hasStore THEN st
  ELSE LET st1 == [st EXCEPT !.storeCalls = Append(@, StoreCall("set", key, Undefined, throws))]
       IN IF throws
            THEN handleCacheError(st1, [op |-> "set", arg |-> key])
            ELSE [st1 EXCEPT !.map = set(@, cacheOpts.maxSize, key, value, Undefined, now)]

cacheSet(st, key, value, throws) ==
  IF ~hasStore THEN st
  ELSE LET st1 == [st EXCEPT !.storeCalls =
                     Append(@, StoreCall("set", key, cacheOpts.defaultTtlMs, throws))]
       IN IF throws
            THEN handleCacheError(st1, [op |-> "set", arg |-> key])
            ELSE [st1 EXCEPT !.map =
                    set(@, cacheOpts.maxSize, key, value, cacheOpts.defaultTtlMs, now)]

\* Mutant: a throwing deleteByPrefix is not caught.
cacheDeleteByPrefix_NoCatch(st, prefix, throws) ==
  IF ~hasDeleteByPrefix THEN st
  ELSE LET st1 == [st EXCEPT !.storeCalls =
                     Append(@, StoreCall("deleteByPrefix", prefix, Undefined, throws))]
       IN IF throws
            THEN [st1 EXCEPT !.thrown = TRUE]
            ELSE [st1 EXCEPT !.map = deleteByPrefix(@, prefix)]

\* Mutant: deleteByPrefix is called although the store may not implement it;
\* calling the missing method throws.
cacheDeleteByPrefix_NoCapabilityCheck(st, prefix, throws) ==
  IF ~hasStore THEN st
  ELSE LET fails == throws \/ ~cacheOpts.deleteByPrefix
           st1 == [st EXCEPT !.storeCalls =
                     Append(@, StoreCall("deleteByPrefix", prefix, Undefined, fails))]
       IN IF fails
            THEN handleCacheError(st1, [op |-> "delete", arg |-> prefix])
            ELSE [st1 EXCEPT !.map = deleteByPrefix(@, prefix)]

\* Mutant: a client whose read caching is switched off for both methods does
\* not invalidate either.
cacheDeleteByPrefix_OnlyWhenCaching(st, prefix, throws) ==
  IF ~hasDeleteByPrefix
     \/ (~Nullish(cacheOpts.listRecords, TRUE) /\ ~Nullish(cacheOpts.getRecord, TRUE))
    THEN st
  ELSE LET st1 == [st EXCEPT !.storeCalls =
                     Append(@, StoreCall("deleteByPrefix", prefix, Undefined, throws))]
       IN IF throws
            THEN handleCacheError(st1, [op |-> "delete", arg |-> prefix])
            ELSE [st1 EXCEPT !.map = deleteByPrefix(@, prefix)]

cacheDeleteByPrefix(st, prefix, throws) ==
  IF ~hasDeleteByPrefix THEN st
  ELSE LET st1 == [st EXCEPT !.storeCalls =
                     Append(@, StoreCall("deleteByPrefix", prefix, Undefined, throws))]
       IN IF throws
            THEN handleCacheError(st1, [op |-> "delete", arg |-> prefix])
            ELSE [st1 EXCEPT !.map = deleteByPrefix(@, prefix)]

\* Mutant: the table prefix is not invalidated.
invalidateTable_Noop(st, tableIdOrName, throws) == st

invalidateTable(st, tableIdOrName, throws) ==
  cacheDeleteByPrefix(st, TablePrefixOf[tableIdOrName], throws)

invalidateRecord(st, tableIdOrName, recordId, throws) ==
  cacheDeleteByPrefix(st, RecordPrefixOf[tableIdOrName, recordId], throws)

\* Mutant: only the first record id is invalidated.
invalidateRecords_FirstOnly(st, tableIdOrName, recordIds, throws) ==
  IF recordIds = <<>> THEN st
  ELSE invalidateRecord(st, tableIdOrName, Head(recordIds), throws)

\* invalidateRecords: invalidateRecord for each id, all of them started
\* whether or not an earlier one failed (Promise.all over recordIds.map).
RECURSIVE invalidateRecords(_, _, _, _)
invalidateRecords(st, tableIdOrName, recordIds, throws) ==
  IF recordIds = <<>> THEN st
  ELSE invalidateRecords(invalidateRecord(st, tableIdOrName, Head(recordIds), throws),
                         tableIdOrName, Tail(recordIds), throws)

\* ---------------------------------------------------------------------------
\* Records client: the completed call, with the time it ran at and the store's
\* content when it started
\* ---------------------------------------------------------------------------
Completed(op, table, ids, params, kind, value, error, transportCalls, st) ==
  [op |-> op, table |-> table, ids |-> ids, params |-> params,
   kind |-> kind, value |-> value, error |-> error,
   transportCalls |-> transportCalls,
   storeCalls |-> st.storeCalls, onErrors |-> st.onErrors,
   at |-> now, before |-> map]

\* Mutant: a read whose transport call fails stores a placeholder under the
\* key before it rejects.
CachedRead_CachesFailure(op, table, ids, params, shouldCache, key, getThrows, setThrows, fetched) ==
  LET st0 == Progress(map)
      got == IF shouldCache THEN cacheGet(st0, key, getThrows)
             ELSE [st |-> st0, value |-> Undefined]
  IN IF shouldCache /\ key = ThrownTypeError
       THEN [st |-> st0,
             call |-> Completed(op, table, ids, params, "rejected", 0, "TypeError", 0, st0)]
     ELSE IF got.st.thrown
       THEN [st |-> got.st,
             call |-> Completed(op, table, ids, params, "rejected", 0, "CacheError", 0, got.st)]
     ELSE IF got.value # Undefined
       THEN [st |-> got.st,
             call |-> Completed(op, table, ids, params, "resolved", got.value[1], "none", 0, got.st)]
     ELSE LET st2 == IF shouldCache THEN cacheSet(got.st, key, IF fetched = 0 THEN 1 ELSE fetched, FALSE)
                     ELSE got.st
          IN IF fetched = 0
               THEN [st |-> st2,
                     call |-> Completed(op, table, ids, params, "rejected", 0, "AirtableError", 1, st2)]
               ELSE [st |-> st2,
                     call |-> Completed(op, table, ids, params, "resolved", fetched, "none", 1, st2)]

\* A cached read (listRecords, getRecord) with its key.  fetched is what
\* requestJson answers if it is called: a value, or 0 for an AirtableError.
CachedRead(op, table, ids, params, shouldCache, key, getThrows, setThrows, fetched) ==
  LET st0 == Progress(map)
      got == IF shouldCache THEN cacheGet(st0, key, getThrows)
             ELSE [st |-> st0, value |-> Undefined]
  IN IF shouldCache /\ key = ThrownTypeError
       THEN [st |-> st0,
             call |-> Completed(op, table, ids, params, "rejected", 0, "TypeError", 0, st0)]
     ELSE IF got.st.thrown
       THEN [st |-> got.st,
             call |-> Completed(op, table, ids, params, "rejected", 0, "CacheError", 0, got.st)]
     ELSE IF got.value # Undefined
       THEN [st |-> got.st,
             call |-> Completed(op, table, ids, params, "resolved", got.value[1], "none", 0, got.st)]
     ELSE IF fetched = 0
       THEN [st |-> got.st,
             call |-> Completed(op, table, ids, params, "rejected", 0, "AirtableError", 1, got.st)]
     ELSE LET st2 == IF shouldCache THEN cacheSet(got.st, key, fetched, setThrows)
                     ELSE got.st
          IN IF st2.thrown
               THEN [st |-> st2,
                     call |-> Completed(op, table, ids, params, "rejected", 0, "CacheError", 1, st2)]
               ELSE [st |-> st2,
                     call |-> Completed(op, table, ids, params, "resolved", fetched, "none", 1, st2)]

Faults == IF storeMayThrow THEN BOOLEAN ELSE {FALSE}

\* Mutant: the methods.listRecords toggle is not consulted.
listRecords_IgnoresToggle(tableIdOrName, params, getThrows, setThrows, fetched) ==
  /\ LET shouldCache == hasStore
         r == CachedRead("listRecords", tableIdOrName, <<>>, params, shouldCache,
                         ListKeyOf[tableIdOrName, params],
                         getThrows, setThrows, fetched)
     IN /\ map' = r.st.map
        /\ call' = r.call
  /\ UNCHANGED <<coreVars, utilVars, cacheOpts, now>>

listRecords(tableIdOrName, params, getThrows, setThrows, fetched) ==
  /\ LET shouldCache == hasStore /\ Nullish(cacheOpts.listRecords, TRUE)
         r == CachedRead("listRecords", tableIdOrName, <<>>, params, shouldCache,
                         ListKeyOf[tableIdOrName, params],
                         getThrows, setThrows, fetched)
     IN /\ map' = r.st.map
        /\ call' = r.call
  /\ UNCHANGED <<coreVars, utilVars, cacheOpts, now>>

getRecord(tableIdOrName, recordId, params, getThrows, setThrows, fetched) ==
  /\ LET shouldCache == hasStore /\ Nullish(cacheOpts.getRecord, TRUE)
         r == CachedRead("getRecord", tableIdOrName, <<recordId>>, params, shouldCache,
                         RecordKeyOf[tableIdOrName, recordId, params],
                         getThrows, setThrows, fetched)
     IN /\ map' = r.st.map
        /\ call' = r.call
  /\ UNCHANGED <<coreVars, utilVars, cacheOpts, now>>

\* ---------------------------------------------------------------------------
\* Records client: mutations.  failAt = 0 when every requestJson call of the
\* operation succeeds, k when the k-th one rejects.  tableThrows / recordThrows
\* say whether the store's deleteByPrefix throws for the table prefix / the
\* record prefixes.
\* ---------------------------------------------------------------------------
Batches(n) == (n + MAX_RECORDS_PER_BATCH - 1) \div MAX_RECORDS_PER_BATCH

\* Mutant: a rethrown cache error does not reach the caller.
Mutation_DropsCacheError(op, table, ids, requests, failAt, st) ==
  /\ IF failAt # 0
       THEN /\ call' = Completed(op, table, ids, Undefined, "rejected", 0,
                                 "AirtableError", failAt, Progress(map))
            /\ map' = map
       ELSE /\ call' = Completed(op, table, ids, Undefined, "resolved", 0, "none",
                                 requests, st)
            /\ map' = st.map
  /\ UNCHANGED <<coreVars, utilVars, cacheOpts, now>>

Mutation(op, table, ids, requests, failAt, st) ==
  /\ IF failAt # 0
       THEN /\ call' = Completed(op, table, ids, Undefined, "rejected", 0,
                                 "AirtableError", failAt, Progress(map))
            /\ map' = map
       ELSE /\ call' = Completed(op, table, ids, Undefined,
                                 IF st.thrown THEN "rejected" ELSE "resolved",
                                 0, IF st.thrown THEN "CacheError" ELSE "none",
                                 requests, st)
            /\ map' = st.map
  /\ UNCHANGED <<coreVars, utilVars, cacheOpts, now>>

\* if (!records.length) return { records: [] }
EmptyBatch(op, table) ==
  /\ call' = Completed(op, table, <<>>, Undefined, "resolved", 0, "none", 0, Progress(map))
  /\ UNCHANGED <<coreVars, utilVars, cacheOpts, map, now>>

createRecords(tableIdOrName, count, failAt, tableThrows) ==
  IF count = 0 THEN EmptyBatch("createRecords", tableIdOrName)
  ELSE Mutation("createRecords", tableIdOrName, <<>>, Batches(count), failAt,
                invalidateTable(Progress(map), tableIdOrName, tableThrows))

updateRecords(tableIdOrName, recordIds, failAt, tableThrows, recordThrows) ==
  IF recordIds = <<>> THEN EmptyBatch("updateRecords", tableIdOrName)
  ELSE Mutation("updateRecords", tableIdOrName, recordIds, Batches(Len(recordIds)), failAt,
                invalidateRecords(invalidateTable(Progress(map), tableIdOrName, tableThrows),
                                  tableIdOrName, recordIds, recordThrows))

updateRecord(tableIdOrName, recordId, failAt, tableThrows, recordThrows) ==
  Mutation("updateRecord", tableIdOrName, <<recordId>>, 1, failAt,
           invalidateRecord(invalidateTable(Progress(map), tableIdOrName, tableThrows),
                            tableIdOrName, recordId, recordThrows))

deleteRecord(tableIdOrName, recordId, failAt, tableThrows, recordThrows) ==
  Mutation("deleteRecord", tableIdOrName, <<recordId>>, 1, failAt,
           invalidateRecord(invalidateTable(Progress(map), tableIdOrName, tableThrows),
                            tableIdOrName, recordId, recordThrows))

deleteRecords(tableIdOrName, recordIds, failAt, tableThrows, recordThrows) ==
  IF recordIds = <<>> THEN EmptyBatch("deleteRecords", tableIdOrName)
  ELSE Mutation("deleteRecords", tableIdOrName, recordIds, Batches(Len(recordIds)), failAt,
                invalidateRecords(invalidateTable(Progress(map), tableIdOrName, tableThrows),
                                  tableIdOrName, recordIds, recordThrows))

\* The caller takes the result of the completed call.
Return ==
  /\ call # NoCall
  /\ call' = NoCall
  /\ UNCHANGED <<coreVars, utilVars, cacheOpts, map, now>>

\* Time passes between calls.
Tick ==
  /\ call = NoCall
  /\ now + TickMs <= MaxNow
  /\ now' = now + TickMs
  /\ UNCHANGED <<coreVars, utilVars, cacheOpts, map, call>>

InitRecords ==
  /\ options = [noRetryIfRateLimited |-> Undefined, maxRetries |-> Undefined,
                retryOnStatuses |-> Undefined, retryInitialDelayMs |-> Undefined]
  /\ delay = NoDelay
  /\ UtilIdle
  /\ pc = "idle"
  /\ attempt = 0
  /\ calls = 0
  /\ log = <<>>
  /\ outcome = NoOutcome
  /\ response = NoResponse
  /\ cacheOpts \in CacheOptsChoices
  /\ map = <<>>
  /\ now = 0
  /\ call = NoCall

Reads == {"listRecords", "getRecord"}

Mutations == {"createRecords", "updateRecords", "updateRecord", "deleteRecord", "deleteRecords"}

ListRecordsAny ==
  /\ call = NoCall
  /\ \E t \in Tables, p \in ListParamsChoices, g \in Faults, s \in Faults,
        f \in {0} \cup Values :
       listRecords(t, p, g, s, f)

GetRecordAny ==
  /\ call = NoCall
  /\ \E t \in Tables, r \in RecordIds, p \in GetParamsChoices, g \in Faults, s \in Faults,
        f \in {0} \cup Values :
       getRecord(t, r, p, g, s, f)

CreateRecordsAny ==
  /\ call = NoCall
  /\ \E t \in Tables, n \in {0, 1, MAX_RECORDS_PER_BATCH + 1}, x \in Faults :
       \E k \in 0..Batches(n) : createRecords(t, n, k, x)

UpdateRecordsAny ==
  /\ call = NoCall
  /\ \E t \in Tables, ids \in IdLists, x \in Faults, y \in Faults :
       \E k \in 0..Batches(Len(ids)) : updateRecords(t, ids, k, x, y)

UpdateRecordAny ==
  /\ call = NoCall
  /\ \E t \in Tables, r \in RecordIds, k \in 0..1, x \in Faults, y \in Faults :
       updateRecord(t, r, k, x, y)

DeleteRecordAny ==
  /\ call = NoCall
  /\ \E t \in Tables, r \in RecordIds, k \in 0..1, x \in Faults, y \in Faults :
       deleteRecord(t, r, k, x, y)

DeleteRecordsAny ==
  /\ call = NoCall
  /\ \E t \in Tables, ids \in IdLists, x \in Faults, y \in Faults :
       \E k \in 0..Batches(Len(ids)) : deleteRecords(t, ids, k, x, y)

\* The caller repeats the read that has just returned, at once; the transport,
\* if it is called, answers what the read returned or an error.
ReadAgain ==
  /\ call.op \in Reads
  /\ call.kind = "resolved"
  /\ \E g \in Faults, s \in Faults, f \in {0, call.value} :
       IF call.op = "listRecords"
         THEN listRecords(call.table, call.params, g, s, f)
         ELSE getRecord(call.table, call.ids[1], call.params, g, s, f)

\* The caller follows the updateRecord that has just returned with a getRecord
\* of its record; the transport, if it is called, answers one value or an
\* error.
GetRecordAfterUpdate ==
  /\ call.op = "updateRecord"
  /\ call.kind = "resolved"
  /\ \E r \in {call.ids[1]}, p \in GetParamsChoices, g \in Faults, s \in Faults,
        f \in {0, 1} :
       getRecord(call.table, r, p, g, s, f)

NextRecords ==
  \/ ListRecordsAny
  \/ GetRecordAny
  \/ CreateRecordsAny
  \/ UpdateRecordsAny
  \/ UpdateRecordAny
  \/ DeleteRecordAny
  \/ DeleteRecordsAny
  \/ ReadAgain
  \/ GetRecordAfterUpdate
  \/ Return
  \/ Tick

SpecRecords == InitRecords /\ [][NextRecords]_vars

\* ---------------------------------------------------------------------------
\* Records client: properties
\* ---------------------------------------------------------------------------
KeyOf(c) ==
  IF c.op = "listRecords" THEN ListKeyOf[c.table, c.params]
  ELSE RecordKeyOf[c.table, c.ids[1], c.params]

\* Caching is active for a read: a store is configured and the method's
\* toggle is not false.
CachingActive(op) == hasStore /\ Nullish(cacheOpts[op], TRUE)

Methods(c) == [i \in 1..Len(c.storeCalls) |-> c.storeCalls[i].method]

NoStoreFault(c) == \A i \in 1..Len(c.storeCalls) : ~c.storeCalls[i].threw

SetThrew(c) ==
  \E i \in 1..Len(c.storeCalls) : c.storeCalls[i].method = "set" /\ c.storeCalls[i].threw

TransportSucceeded(c) == c.transportCalls >= 1 /\ c.error # "AirtableError"

RecordMutations == Mutations \ {"createRecords"}

\* The read's cache key could be computed: stableStringify did not throw.
KeyComputed(c) == KeyOf(c) # ThrownTypeError

\* What store.get(key) answered the call with.
StoreAnswer(c) == get(c.before, KeyOf(c), c.at).value

\* C4: when caching is active for listRecords / getRecord and store.get(key)
\* succeeds with a present value, the read returns exactly that value, the
\* transport is not invoked and store.set is not called.
C4_HitSkipsTransport ==
  ( /\ call.op \in Reads
    /\ CachingActive(call.op)
    /\ KeyComputed(call)
    /\ ~call.storeCalls[1].threw
    /\ StoreAnswer(call) # Undefined )
  => ( /\ call.kind = "resolved"
       /\ call.value = StoreAnswer(call)[1]
       /\ call.transportCalls = 0
       /\ Methods(call) = <<"get">> )

C4_Witness ==
  /\ call.op = "getRecord"
  /\ CachingActive("getRecord")
  /\ Len(call.before) = MaxStoreSize
  /\ StoreAnswer(call) # Undefined
  /\ call.kind = "resolved"
  /\ call.transportCalls = 0

\* C5: with a store and defaultTtlMs = 1000, the first listRecords / getRecord
\* for a key misses, makes exactly one transport call and writes the result
\* with store.set(key, result, 1000); the identical read issued at once
\* afterwards is served from the store with no transport call.
C5_FirstRead(c) ==
  /\ c.op \in Reads
  /\ CachingActive(c.op)
  /\ KeyComputed(c)
  /\ cacheOpts.defaultTtlMs = Some(1000)
  /\ NoStoreFault(c)
  /\ ~HasKey(c.before, KeyOf(c))
  /\ c.error # "AirtableError"

C5_MissThenHit ==
  /\ []( C5_FirstRead(call)
         => ( /\ call.kind = "resolved"
              /\ call.transportCalls = 1
              /\ call.storeCalls =
                   << StoreCall("get", KeyOf(call), Undefined, FALSE),
                      StoreCall("set", KeyOf(call), Some(1000), FALSE) >> ) )
  /\ [][ ( /\ C5_FirstRead(call)
           /\ call'.op = call.op
           /\ call'.table = call.table
           /\ call'.ids = call.ids
           /\ call'.params = call.params
           /\ call'.at = call.at
           /\ call'.before = map
           /\ NoStoreFault(call') )
         => ( /\ call'.kind = "resolved"
              /\ call'.value = call.value
              /\ call'.transportCalls = 0 ) ]_vars

C5_Witness ==
  /\ call.op = "listRecords"
  /\ CachingActive("listRecords")
  /\ cacheOpts.defaultTtlMs = Some(1000)
  /\ call.before = <<Entry(KeyOf(call), call.value, Some(call.at + 1000))>>
  /\ call.kind = "resolved"
  /\ call.transportCalls = 0

\* C6: with an InMemoryCacheStore, after updateRecord(table, id) has returned
\* successfully no getRecord entry of that record remains under any params,
\* and the next getRecord(table, id, p) invokes the transport.
C6_Updated ==
  /\ cacheOpts.store = "memory"
  /\ call.op = "updateRecord"
  /\ call.kind = "resolved"

C6_UpdateThenGetMisses ==
  /\ []( C6_Updated
         => \A p \in ParamsChoices :
              ~HasKey(map, RecordKeyOf[call.table, call.ids[1], p]) )
  /\ [][ ( /\ C6_Updated
           /\ call'.op = "getRecord"
           /\ call'.table = call.table
           /\ call'.ids = call.ids
           /\ KeyComputed(call') )
         => ( /\ call'.transportCalls = 1
              /\ (CachingActive("getRecord")
                    => call'.storeCalls[1] =
                         StoreCall("get", KeyOf(call'), Undefined, FALSE)) ) ]_vars

C6_Witness ==
  /\ C6_Updated
  /\ \A p \in GetParamsChoices \ {Some(CircularParams)} :
       /\ HasKey(call.before, RecordKeyOf[call.table, call.ids[1], p])
       /\ ~Expired(call.before[IndexOf(call.before, RecordKeyOf[call.table, call.ids[1], p])],
                   call.at)

\* C7: a successful updateRecord, deleteRecord, updateRecords or deleteRecords
\* leaves every cached getRecord entry of a record of the same table that it
\* does not name in the store, unchanged.
C7_OtherRecordsUntouched ==
  ( /\ call.op \in RecordMutations
    /\ call.kind = "resolved" )
  => \A r \in RecordIds, p \in ParamsChoices :
       ( /\ \A i \in 1..Len(call.ids) : call.ids[i] # r
         /\ HasKey(call.before, RecordKeyOf[call.table, r, p]) )
       => \E i \in 1..Len(map) :
            map[i] = call.before[IndexOf(call.before, RecordKeyOf[call.table, r, p])]

\* C8: after a mutation with non-empty input has succeeded against the
\* transport on a client whose store implements deleteByPrefix,
\* deleteByPrefix(tablePrefix(baseId, table)) has been called; with an
\* InMemoryCacheStore no cached list result of the table remains.
C8_TableInvalidated ==
  ( /\ call.op \in Mutations
    /\ TransportSucceeded(call)
    /\ hasDeleteByPrefix )
  => ( /\ \E i \in 1..Len(call.storeCalls) :
            /\ call.storeCalls[i].method = "deleteByPrefix"
            /\ call.storeCalls[i].arg = tablePrefix(baseId, call.table)
       /\ (cacheOpts.store = "memory"
             => \A p \in ParamsChoices : ~HasKey(map, ListKeyOf[call.table, p])) )

C8_Witness ==
  /\ call.op = "createRecords"
  /\ call.kind = "resolved"
  /\ call.transportCalls = 2
  /\ cacheOpts.store = "memory"
  /\ \E p \in ListParamsChoices : HasKey(call.before, ListKeyOf[call.table, p])

\* C9: updateRecord and deleteRecord call
\* deleteByPrefix(recordPrefix(baseId, table, id)) for their record, and
\* updateRecords and deleteRecords for every record id of their input across
\* all batches, before they return successfully.
C9_RecordsInvalidated ==
  ( /\ call.op \in RecordMutations
    /\ call.kind = "resolved"
    /\ hasDeleteByPrefix )
  => \A i \in 1..Len(call.ids) :
       \E j \in 1..Len(call.storeCalls) :
         /\ call.storeCalls[j].method = "deleteByPrefix"
         /\ call.storeCalls[j].arg = recordPrefix(baseId, call.table, call.ids[i])

C9_Witness ==
  /\ call.op = "deleteRecords"
  /\ call.kind = "resolved"
  /\ hasDeleteByPrefix
  /\ Len(call.ids) > MAX_RECORDS_PER_BATCH
  /\ call.transportCalls = 2
  /\ Len(call.storeCalls) = Len(call.ids) + 1

\* C10 as stated: if store.set throws while a cached read writes its freshly
\* fetched result through, the read still returns that result, whatever the
\* cache configuration.
C10_Original ==
  (call.op \in Reads /\ SetThrew(call))
  => ( /\ call.kind = "resolved"
       /\ call.value \in Values
       /\ call.transportCalls = 1 )

\* C10 amended: if store.set throws while a cached read writes its freshly
\* fetched result through, the read still returns that result unless
\* failOnCacheError is set; when it is set the read rejects with the store's
\* error.
C10_SetFailureSwallowed ==
  (call.op \in Reads /\ SetThrew(call))
  => IF Nullish(cacheOpts.failOnCacheError, FALSE)
       THEN call.kind = "rejected" /\ call.error = "CacheError"
       ELSE /\ call.kind = "resolved"
            /\ call.value \in Values
            /\ call.transportCalls = 1

C10_Witness ==
  /\ call.op \in Reads
  /\ SetThrew(call)
  /\ ~Nullish(cacheOpts.failOnCacheError, FALSE)
  /\ call.onErrors = <<[op |-> "set", arg |-> KeyOf(call)]>>
  /\ call.kind = "resolved"
  /\ call.transportCalls = 1

\* The onError contexts of the store calls that threw, in call order.
ThrewCalls(c) == SelectSeq(c.storeCalls, LAMBDA sc : sc.threw)

OpOf(method) == IF method = "deleteByPrefix" THEN "delete" ELSE method

ErrorContexts(c) ==
  [i \in 1..Len(ThrewCalls(c)) |->
     [op |-> OpOf(ThrewCalls(c)[i].method), arg |-> ThrewCalls(c)[i].arg]]

FailOnCacheError == Nullish(cacheOpts.failOnCacheError, FALSE)

GetThrew(c) == c.storeCalls # <<>> /\ c.storeCalls[1].method = "get" /\ c.storeCalls[1].threw

DeleteThrew(c) ==
  \E i \in 1..Len(c.storeCalls) :
    c.storeCalls[i].method = "deleteByPrefix" /\ c.storeCalls[i].threw

\* C11: with failOnCacheError unset, when store.get throws during a cached
\* read, onError (if configured) is invoked exactly once with
\* {op: 'get', key}, the error is swallowed, the read is treated as a miss,
\* the transport is called exactly once and its outcome is returned.
C11_GetErrorSwallowed ==
  (call.op \in Reads /\ GetThrew(call) /\ ~FailOnCacheError)
  => ( /\ call.transportCalls = 1
       /\ call.error # "CacheError"
       /\ (call.error = "none" => call.kind = "resolved" /\ call.value \in Values)
       /\ (call.error = "AirtableError" => call.kind = "rejected")
       /\ IF cacheOpts.onError
            THEN /\ call.onErrors # <<>>
                 /\ call.onErrors[1] = [op |-> "get", arg |-> KeyOf(call)]
                 /\ \A i \in 2..Len(call.onErrors) : call.onErrors[i].op # "get"
            ELSE call.onErrors = <<>> )

C11_Witness ==
  /\ call.op = "getRecord"
  /\ GetThrew(call)
  /\ ~FailOnCacheError
  /\ call.onErrors = <<[op |-> "get", arg |-> KeyOf(call)]>>
  /\ HasKey(call.before, KeyOf(call))
  /\ call.kind = "resolved"
  /\ call.transportCalls = 1

\* C12: with failOnCacheError = true, when store.get throws during a cached
\* read, onError is invoked and the read rejects with that error; the
\* transport is not invoked and store.set is not called.
C12_GetErrorRethrown ==
  (call.op \in Reads /\ GetThrew(call) /\ FailOnCacheError)
  => ( /\ call.kind = "rejected"
       /\ call.error = "CacheError"
       /\ call.transportCalls = 0
       /\ Methods(call) = <<"get">>
       /\ call.onErrors = IF cacheOpts.onError
                            THEN <<[op |-> "get", arg |-> KeyOf(call)]>>
                            ELSE <<>>
       /\ map = call.before )

C12_Witness ==
  /\ call.op = "listRecords"
  /\ GetThrew(call)
  /\ FailOnCacheError
  /\ call.kind = "rejected"
  /\ call.onErrors = <<[op |-> "get", arg |-> KeyOf(call)]>>

\* C13: with failOnCacheError unset, when deleteByPrefix throws during the
\* invalidation step of a mutation, onError is invoked with
\* {op: 'delete', prefix} for each failing call, the error is swallowed and
\* the mutation returns its normal transport result.
C13_DeleteErrorSwallowed ==
  (call.op \in Mutations /\ DeleteThrew(call) /\ ~FailOnCacheError)
  => ( /\ call.kind = "resolved"
       /\ call.error = "none"
       /\ call.transportCalls >= 1
       /\ call.onErrors = IF cacheOpts.onError THEN ErrorContexts(call) ELSE <<>>
       /\ \A i \in 1..Len(ErrorContexts(call)) : ErrorContexts(call)[i].op = "delete" )

C13_Witness ==
  /\ call.op = "updateRecords"
  /\ ~FailOnCacheError
  /\ Len(call.ids) > MAX_RECORDS_PER_BATCH
  /\ Len(call.onErrors) = Len(call.ids) + 1
  /\ call.onErrors[1] = [op |-> "delete", arg |-> tablePrefix(baseId, call.table)]
  /\ call.kind = "resolved"

\* C14: with failOnCacheError = true, when deleteByPrefix throws after the
\* transport write of a mutation has succeeded, the mutation rejects with the
\* cache error, onError having been invoked; the write has been made (every
\* batch was sent) and nothing is sent to undo it.
C14_DeleteErrorRethrown ==
  (call.op \in Mutations /\ DeleteThrew(call) /\ FailOnCacheError)
  => ( /\ call.kind = "rejected"
       /\ call.error = "CacheError"
       /\ call.transportCalls >= 1
       /\ (call.op \in RecordMutations
             => call.transportCalls = Batches(Len(call.ids)))
       /\ call.onErrors = IF cacheOpts.onError THEN ErrorContexts(call) ELSE <<>> )

C14_Witness ==
  /\ call.op = "deleteRecord"
  /\ FailOnCacheError
  /\ DeleteThrew(call)
  /\ call.kind = "rejected"
  /\ call.transportCalls = 1
  /\ call.onErrors # <<>>

\* C15: when the store does not implement deleteByPrefix, every create /
\* update / delete operation whose transport calls succeed returns its normal
\* result, no store method is invoked, onError is not called and the store is
\* left as it was, whether or not failOnCacheError is set.
C15_NoDeleteByPrefix ==
  (call.op \in Mutations /\ hasStore /\ ~cacheOpts.deleteByPrefix
     /\ call.error # "AirtableError")
  => ( /\ call.kind = "resolved"
       /\ call.storeCalls = <<>>
       /\ call.onErrors = <<>>
       /\ map = call.before )

C15_Witness ==
  /\ call.op = "deleteRecords"
  /\ hasStore
  /\ ~cacheOpts.deleteByPrefix
  /\ FailOnCacheError
  /\ call.before # <<>>
  /\ call.transportCalls = 2
  /\ call.kind = "resolved"

\* C16: when computing the cache key of a cached read raises the
\* circular-structure TypeError of stableStringify, the error goes through the
\* cache-error policy: onError is invoked with it and, unless failOnCacheError
\* is set, it is swallowed and the read proceeds to the transport.
C16_KeyErrorThroughPolicy ==
  (call.op \in Reads /\ CachingActive(call.op) /\ KeyOf(call) = ThrownTypeError)
  => ( /\ (cacheOpts.onError => call.onErrors # <<>>)
       /\ (~FailOnCacheError
             => call.transportCalls = 1 /\ call.error \in {"none", "AirtableError"}) )

\* The step is the read c issued with a transport that answers a terminal
\* API error.
FailingRead(c) ==
  \E g \in Faults, s \in Faults :
    IF c.op = "listRecords" THEN listRecords(c.table, c.params, g, s, 0)
    ELSE getRecord(c.table, c.ids[1], c.params, g, s, 0)

\* C17: when the transport outcome of a cached read (listRecords, getRecord)
\* is a terminal API error, the read rejects with that error, store.set is not
\* called for the read, and the store answers the read's key afterwards
\* exactly as it did before: the failed read leaves nothing behind that a
\* later read could obtain.
C17_FailedReadNotCached ==
  [][ (call'.op \in Reads /\ call'.transportCalls = 1 /\ FailingRead(call'))
      => ( /\ call'.kind = "rejected"
           /\ call'.error = "AirtableError"
           /\ \A i \in 1..Len(call'.storeCalls) : call'.storeCalls[i].method # "set"
           /\ map' = (IF CachingActive(call'.op) /\ ~GetThrew(call')
                        THEN get(map, KeyOf(call'), now).map ELSE map)
           /\ get(map', KeyOf(call'), now).value = get(map, KeyOf(call'), now).value ) ]_vars

C17_Witness ==
  /\ call.op \in Reads
  /\ CachingActive(call.op)
  /\ call.error = "AirtableError"
  /\ call.transportCalls = 1
  /\ Methods(call) = <<"get">>
  /\ call.before # <<>>

\* C18: requestJson rejects with a typed AirtableError exactly when the
\* response that ends the retry loop has a non-2xx status, and the error's
\* status is that response's status, whatever the content type and body; a
\* final 204 resolves with no value and every other final 2xx resolves.
C18_TypedErrorIffNon2xx ==
  pc = "done"
  => ( /\ (outcome.kind = "AirtableError") <=> ~responseOk(response.status)
       /\ (outcome.kind = "AirtableError" => outcome.status = response.status)
       /\ (response.status = 204 => outcome = Resolved(204, "undefined"))
       /\ (responseOk(response.status) => outcome.kind = "resolved") )

\* ---------------------------------------------------------------------------
\* Core client: getRetryDelayMs.  Delays are in milliseconds.  Math.random()
\* answers random / RandomGrid for random in 0..RandomGrid-1, and the initial
\* delays drawn are multiples of 5 * RandomGrid, so that the jitter
\* base * 0.2 * Math.random() is a whole number of milliseconds.
\* ---------------------------------------------------------------------------
MaxAttempt == 3

RandomGrid == 4

InitialDelayChoices == {0, 5 * RandomGrid, 25 * RandomGrid}

DelayOptions ==
  [noRetryIfRateLimited : {Undefined},
   maxRetries : {Undefined},
   retryOnStatuses : {Undefined},
   retryInitialDelayMs : {Undefined} \cup {Some(d) : d \in InitialDelayChoices}]

\* Values of the Retry-After header: absent (headers.get answers null), empty,
\* not numeric, zero, negative, and positive with and without a fraction.
RetryAfterChoices ==
  { Undefined,
    Some(<<>>),
    Some(<<"a", "b", "c">>),
    Some(<<"2", "x">>),
    Some(<<"1", ".", "2", ".", "3">>),
    Some(<<"0">>),
    Some(<<"-", "1">>),
    Some(<<"1">>),
    Some(<<"2">>),
    Some(<<"3", "0">>),
    Some(<<"+", "2">>),
    Some(<<"1", ".", "5">>),
    Some(<<".", "2", "5">>) }

\* A JS number in thousandths, or NaN.
NaN == [nan |-> TRUE, milli |-> 0]

Num(milli) == [nan |-> FALSE, milli |-> milli]

IsDigit(c) == \E i \in 1..Len(Digits) : Digits[i] = c

DigitValue(c) == (CHOOSE i \in 1..Len(Digits) : Digits[i] = c) - 1

AllDigits(str) == \A i \in 1..Len(str) : IsDigit(str[i])

RECURSIVE DigitsValue(_)
DigitsValue(str) ==
  IF str = <<>> THEN 0
  ELSE DigitsValue(SubSeq(str, 1, Len(str) - 1)) * 10 + DigitValue(str[Len(str)])

\* Number(string) for a signed decimal literal without exponent and with at
\* most three fraction digits; the empty string is 0, anything else NaN.
Number(str) ==
  LET signed == str # <<>> /\ str[1] \in {"+", "-"}
      body == IF signed THEN Tail(str) ELSE str
      dots == {i \in 1..Len(body) : body[i] = "."}
      dot == IF dots = {} THEN Len(body) + 1
             ELSE CHOOSE i \in dots : \A j \in dots : i <= j
      int == SubSeq(body, 1, dot - 1)
      frac == SubSeq(body, dot + 1, Len(body))
      wellFormed == AllDigits(int) /\ AllDigits(frac) /\ Len(int) + Len(frac) > 0
      magnitude == DigitsValue(int) * 1000
                   + DigitsValue(SubSeq(frac \o <<"0", "0", "0">>, 1, 3))
  IN IF str = <<>> THEN Num(0)
     ELSE IF ~wellFormed THEN NaN
     ELSE Num(IF str[1] = "-" THEN 0 - magnitude ELSE magnitude)

\* Mutant: the Retry-After header is not looked at.
getRetryDelayMs_IgnoresRetryAfter(retryAfter, k, random) ==
  LET base == retryInitialDelayMs * 2^k
      jitter == (base * 2 * random) \div (10 * RandomGrid)
  IN base + jitter

\* Mutant: the jitter is taken off the base.
getRetryDelayMs_SubtractsJitter(retryAfter, k, random) ==
  LET seconds == Number(retryAfter[1])
      base == retryInitialDelayMs * 2^k
      jitter == (base * 2 * random) \div (10 * RandomGrid)
  IN IF retryAfter # Undefined /\ retryAfter[1] # <<>>
        /\ ~seconds.nan /\ seconds.milli > 0
       THEN seconds.milli
       ELSE base - jitter

\* retryAfter is response.headers.get('Retry-After'), k the attempt, random
\* the numerator of what Math.random() answers.
getRetryDelayMs(retryAfter, k, random) ==
  LET seconds == Number(retryAfter[1])
      base == retryInitialDelayMs * 2^k
      jitter == (base * 2 * random) \div (10 * RandomGrid)
  IN IF retryAfter # Undefined /\ retryAfter[1] # <<>>    \* if (retryAfter)
        /\ ~seconds.nan /\ seconds.milli > 0
       THEN seconds.milli                                 \* seconds * 1000
       ELSE base + jitter

InitDelay ==
  /\ options \in DelayOptions
  /\ delay = NoDelay
  /\ UtilIdle
  /\ pc = "idle"
  /\ attempt = 0
  /\ calls = 0
  /\ log = <<>>
  /\ outcome = NoOutcome
  /\ response = NoResponse
  /\ cacheOpts = BaseCacheOpts
  /\ map = <<>>
  /\ now = 0
  /\ call = NoCall

GetRetryDelayMs(retryAfter, k, random) ==
  /\ delay' = [computed |-> TRUE, retryAfter |-> retryAfter, attempt |-> k,
               random |-> random, ms |-> getRetryDelayMs(retryAfter, k, random)]
  /\ UNCHANGED <<options, pc, attempt, calls, log, outcome, response, utilVars, recVars>>

GetRetryDelayMsAny ==
  \E retryAfter \in RetryAfterChoices, k \in 0..MaxAttempt, random \in 0..(RandomGrid - 1) :
    GetRetryDelayMs(retryAfter, k, random)

NextDelay == GetRetryDelayMsAny

SpecDelay == InitDelay /\ [][NextDelay]_vars

\* ---------------------------------------------------------------------------
\* Properties of getRetryDelayMs (checked under SpecDelay)
\* ---------------------------------------------------------------------------
\* The header parses as a positive number.
PositiveRetryAfter(h) ==
  /\ h # Undefined
  /\ h[1] # <<>>
  /\ ~Number(h[1]).nan
  /\ Number(h[1]).milli > 0

Backoff(k) == retryInitialDelayMs * 2^k

\* C19: when the Retry-After header parses as a positive number s the delay
\* is exactly s x 1000 ms, for every attempt number and every
\* retryInitialDelayMs; when the header is absent, not numeric or not
\* positive, the exponential backoff of the attempt is used instead.
C19_RetryAfterPrecedence ==
  delay.computed
  => ( /\ PositiveRetryAfter(delay.retryAfter)
            => delay.ms = Number(delay.retryAfter[1]).milli
       /\ delay.retryAfter = Some(<<"2">>) => delay.ms = 2000
       /\ delay.retryAfter = Some(<<"1", ".", "5">>) => delay.ms = 1500
       /\ delay.retryAfter = Some(<<"3", "0">>) => delay.ms = 30000
       /\ ~PositiveRetryAfter(delay.retryAfter)
            => /\ delay.ms >= Backoff(delay.attempt)
               /\ 5 * delay.ms <= 6 * Backoff(delay.attempt)
               /\ (delay.random = 0 => delay.ms = Backoff(delay.attempt)) )

C19_Witness ==
  /\ delay.computed
  /\ delay.retryAfter = Some(<<"2">>)
  /\ delay.attempt = MaxAttempt
  /\ options.retryInitialDelayMs = Some(25 * RandomGrid)
  /\ delay.random > 0
  /\ delay.ms = 2000

\* C20: absent a valid Retry-After header, the un-jittered delay for attempt
\* k is retryInitialDelayMs x 2^k, so it exactly doubles from attempt k to
\* k + 1, and the final delay d satisfies base <= d <= base + 20% of base.
C20_BackoffDoublesJitterAdded ==
  (delay.computed /\ ~PositiveRetryAfter(delay.retryAfter))
  => LET h == delay.retryAfter
         k == delay.attempt
         base == getRetryDelayMs(h, k, 0)
     IN /\ base = retryInitialDelayMs * 2^k
        /\ getRetryDelayMs(h, k + 1, 0) = 2 * base
        /\ base <= delay.ms
        /\ 5 * delay.ms <= 6 * base

C20_Witness ==
  /\ delay.computed
  /\ delay.retryAfter = Undefined
  /\ delay.attempt = MaxAttempt
  /\ delay.random = RandomGrid - 1
  /\ delay.ms > retryInitialDelayMs * 2^MaxAttempt
  /\ options.retryInitialDelayMs = Some(5 * RandomGrid)

\* ---------------------------------------------------------------------------
\* Records client: the per-method caching toggles (checked under SpecRecords)
\* ---------------------------------------------------------------------------
\* C21: caching is active for listRecords (getRecord) exactly when a store is
\* configured and methods.listRecords (methods.getRecord) is not false, an
\* omitted toggle meaning enabled: a read whose key is computed consults
\* store.get first exactly in that case, and a read for which caching is
\* inactive calls neither store.get nor store.set and makes exactly one
\* requestJson call.
C21_CachingToggle ==
  call.op \in Reads
  => LET configured == cacheOpts.store # "none" /\ cacheOpts[call.op] # Some(FALSE)
     IN /\ configured
             => \/ ~KeyComputed(call)
                \/ /\ call.storeCalls # <<>>
                   /\ call.storeCalls[1].method = "get"
        /\ ~configured
             => /\ call.storeCalls = <<>>
                /\ call.transportCalls = 1

C21_Witness ==
  /\ call.op = "listRecords"
  /\ cacheOpts.store = "memory"
  /\ cacheOpts.listRecords = Some(FALSE)
  /\ cacheOpts.getRecord = Undefined
  /\ call.storeCalls = <<>>
  /\ call.transportCalls = 1
  /\ call.before # <<>>

\* ---------------------------------------------------------------------------
\* InMemoryCacheStore on its own: one store of capacity cacheOpts.maxSize whose
\* methods are called in any order while time passes.
\* ---------------------------------------------------------------------------
\* Date.now() when the store is created: any positive number.
StoreStart == 1

KeyA == <<"a">>

KeyAB == <<"a", "b">>

KeyB == <<"b">>

StoreKeys == {KeyA, KeyAB, KeyB}

StorePrefixes == StoreKeys \cup {<<>>, <<"c">>}

TtlChoices == {Undefined, Some(1000)}

KeysOf(m) == {m[i].key : i \in 1..Len(m)}

\* The keys of m, in order, that m2 no longer has.
Removed(m, m2) ==
  LET Gone(e) == ~HasKey(m2, e.key) IN [i \in 1..Len(SelectSeq(m, Gone)) |-> SelectSeq(m, Gone)[i].key]

\* recency after the method has run: key moves to the end when the method
\* touched it, keys that left the store are forgotten.
Touch(r, touched, key, m2) ==
  LET Others(k) == k # key /\ HasKey(m2, k)
      Present(k) == HasKey(m2, k)
  IN IF touched THEN Append(SelectSeq(r, Others), key) ELSE SelectSeq(r, Present)

StoreCallOf(op, key, value, ttlMs, result, m2) ==
  [op |-> op, key |-> key, value |-> value, ttlMs |-> ttlMs, result |-> result,
   removed |-> Removed(map, m2), sizeBefore |-> Len(map),
   first |-> IF map = <<>> THEN Undefined ELSE Some(map[1].key),
   present |-> op # "deleteByPrefix" /\ HasKey(map, key)]

InitStore ==
  /\ options = [noRetryIfRateLimited |-> Undefined, maxRetries |-> Undefined,
                retryOnStatuses |-> Undefined, retryInitialDelayMs |-> Undefined]
  /\ delay = NoDelay
  /\ pc = "idle"
  /\ attempt = 0
  /\ calls = 0
  /\ log = <<>>
  /\ outcome = NoOutcome
  /\ response = NoResponse
  /\ cacheOpts \in {[BaseCacheOpts EXCEPT !.maxSize = n] : n \in 0..MaxStoreSize}
  /\ map = <<>>
  /\ now = StoreStart
  /\ call = NoCall
  /\ storeCall = NoStoreCall
  /\ recency = <<>>
  /\ stringified = NoStringified
  /\ AuxIdle

StoreFrame == UNCHANGED <<coreVars, cacheOpts, now, call, stringified, auxVars>>

StoreGet(key) ==
  /\ LET r == get(map, key, now)
     IN /\ map' = r.map
        /\ storeCall' = StoreCallOf("get", key, 0, Undefined, r.value, r.map)
        /\ recency' = Touch(recency, r.value # Undefined, key, r.map)
  /\ StoreFrame

StoreSet(key, value, ttlMs) ==
  /\ LET m2 == set(map, cacheOpts.maxSize, key, value, ttlMs, now)
     IN /\ map' = m2
        /\ storeCall' = StoreCallOf("set", key, value, ttlMs, Undefined, m2)
        /\ recency' = Touch(recency, TRUE, key, m2)
  /\ StoreFrame

StoreDelete(key) ==
  /\ LET m2 == delete(map, key)
     IN /\ map' = m2
        /\ storeCall' = StoreCallOf("delete", key, 0, Undefined, Undefined, m2)
        /\ recency' = Touch(recency, FALSE, key, m2)
  /\ StoreFrame

StoreDeleteByPrefix(prefix) ==
  /\ LET m2 == deleteByPrefix(map, prefix)
     IN /\ map' = m2
        /\ storeCall' = StoreCallOf("deleteByPrefix", prefix, 0, Undefined, Undefined, m2)
        /\ recency' = Touch(recency, FALSE, prefix, m2)
  /\ StoreFrame

\* Time passes between two calls.
StoreTick ==
  /\ now + TickMs <= StoreStart + 2 * MaxNow
  /\ now' = now + TickMs
  /\ storeCall' = NoStoreCall
  /\ UNCHANGED <<coreVars, cacheOpts, map, call, recency, stringified, auxVars>>

StoreGetAny == \E key \in StoreKeys : StoreGet(key)

StoreSetAny ==
  \E key \in StoreKeys, value \in Values, ttlMs \in TtlChoices : StoreSet(key, value, ttlMs)

StoreDeleteAny == \E key \in StoreKeys : StoreDelete(key)

StoreDeleteByPrefixAny == \E prefix \in StorePrefixes : StoreDeleteByPrefix(prefix)

NextStore ==
  \/ StoreGetAny
  \/ StoreSetAny
  \/ StoreDeleteAny
  \/ StoreDeleteByPrefixAny
  \/ StoreTick

SpecStore == InitStore /\ [][NextStore]_vars

\* ---------------------------------------------------------------------------
\* Properties of InMemoryCacheStore (checked under SpecStore)
\* ---------------------------------------------------------------------------
\* The entry's expiry timestamp is earlier than t.
PastExpiry(e, t) == e.expiresAt # Undefined /\ e.expiresAt[1] < t

\* The step is a set that inserts a key the store does not have while it is
\* at or above capacity.
InsertAtCapacity ==
  /\ storeCall'.op = "set"
  /\ ~HasKey(map, storeCall'.key)
  /\ Len(map) >= cacheOpts.maxSize

\* The entry such an insert has to remove: the first one past its expiry, or
\* the first one of the store's order when none is.
Victim ==
  LET past == {i \in 1..Len(map) : PastExpiry(map[i], now)}
  IN IF past = {} THEN 1 ELSE CHOOSE i \in past : \A j \in past : i <= j

\* C22 as stated: every insert of a new key at size >= maxSize removes
\* exactly one existing entry.
C22_Original ==
  ( /\ storeCall.op = "set"
    /\ ~storeCall.present
    /\ storeCall.sizeBefore >= cacheOpts.maxSize )
  => Len(storeCall.removed) = 1

\* C22: when set inserts a key that is not present while size >= maxSize and
\* the store is not empty, exactly one existing entry is removed: the first
\* already-expired entry in the store's order if there is one, otherwise the
\* least recently used one; an empty store (maxSize = 0) has nothing to
\* remove.  With maxSize = 2, A expired and B without expiry, set(C) leaves
\* exactly B and C, whichever of A and B is the less recently used.
C22_EvictsExpiredFirst ==
  [][ InsertAtCapacity
      => /\ map # <<>>
              => /\ storeCall'.removed = <<map[Victim].key>>
                 /\ map' = Append(RemoveAt(map, Victim), map'[Len(map')])
                 /\ map'[Len(map')].key = storeCall'.key
         /\ map = <<>> => (storeCall'.removed = <<>> /\ Len(map') = 1)
         /\ ( /\ cacheOpts.maxSize = 2
              /\ KeysOf(map) = {KeyA, KeyAB}
              /\ PastExpiry(map[IndexOf(map, KeyA)], now)
              /\ map[IndexOf(map, KeyAB)].expiresAt = Undefined )
            => KeysOf(map') = {KeyAB, KeyB} ]_vars

C22_Witness ==
  /\ cacheOpts.maxSize = 2
  /\ storeCall.op = "set"
  /\ storeCall.key = KeyB
  /\ storeCall.first = Some(KeyAB)
  /\ storeCall.removed = <<KeyA>>
  /\ KeysOf(map) = {KeyAB, KeyB}

\* C23: every get that returns a value and every set moves its key to the
\* most-recently-used end of the store's order, so the order of the store is
\* the order of the keys' latest successful get or set; when no entry is
\* expired, the entry evicted by an at-capacity insert of a new key is the one
\* whose latest successful get or set is the oldest.
C23_LruOrder ==
  /\ []( /\ [i \in 1..Len(map) |-> map[i].key] = recency
         /\ ( \/ storeCall.op = "set"
              \/ storeCall.op = "get" /\ storeCall.result # Undefined )
            => map[Len(map)].key = storeCall.key )
  /\ [][ ( /\ InsertAtCapacity
           /\ map # <<>>
           /\ \A i \in 1..Len(map) : ~PastExpiry(map[i], now) )
         => storeCall'.removed = <<recency[1]>> ]_vars

C23_Witness ==
  /\ cacheOpts.maxSize = 2
  /\ storeCall.op = "set"
  /\ ~storeCall.present
  /\ storeCall.removed = <<KeyAB>>
  /\ recency = <<KeyA, KeyB>>
  /\ \A i \in 1..Len(map) : map[i].expiresAt = Undefined

\* C24: get never returns the value of an entry whose expiry timestamp is
\* earlier than the current time: such a get removes the entry (and nothing
\* else) and returns absent; a key that is not in the store is answered absent
\* and comes back only through a set of that key; an entry set without ttlMs
\* has no expiry and is answered with its value at any later time.
C24_ExpiredNeverReturned ==
  [][ /\ storeCall'.op = "get"
        => LET k == storeCall'.key
           IN /\ (HasKey(map, k) /\ PastExpiry(map[IndexOf(map, k)], now))
                   => /\ storeCall'.result = Undefined
                      /\ map' = RemoveAt(map, IndexOf(map, k))
              /\ ~HasKey(map, k)
                   => /\ storeCall'.result = Undefined
                      /\ map' = map
              /\ (HasKey(map, k) /\ map[IndexOf(map, k)].expiresAt = Undefined)
                   => storeCall'.result = Some(map[IndexOf(map, k)].value)
      /\ \A k \in StoreKeys :
           (~HasKey(map, k) /\ HasKey(map', k))
             => (storeCall'.op = "set" /\ storeCall'.key = k)
      /\ (storeCall'.op = "set" /\ storeCall'.ttlMs = Undefined)
           => map'[Len(map')].expiresAt = Undefined ]_vars

C24_Witness ==
  /\ storeCall.op = "get"
  /\ storeCall.present
  /\ storeCall.result = Undefined
  /\ storeCall.removed = <<storeCall.key>>
  /\ storeCall.sizeBefore = 2
  /\ Len(map) = 1

\* C25: set on a key that is already present replaces its value and its
\* expiry (a set without ttlMs clears the earlier expiry), makes it the most
\* recently used entry and removes no other entry, also when the store is at
\* or above capacity.
C25_UpdateInPlace ==
  [][ (storeCall'.op = "set" /\ HasKey(map, storeCall'.key))
      => LET k == storeCall'.key
             ttl == storeCall'.ttlMs
             entry == [key |-> k, value |-> storeCall'.value,
                       expiresAt |-> IF ttl = Undefined THEN Undefined
                                     ELSE Some(now + ttl[1])]
         IN /\ map' = Append(RemoveAt(map, IndexOf(map, k)), entry)
            /\ storeCall'.removed = <<>> ]_vars

C25_Witness ==
  /\ storeCall.op = "set"
  /\ storeCall.present
  /\ storeCall.sizeBefore = 2
  /\ cacheOpts.maxSize = 2
  /\ storeCall.first = Some(storeCall.key)
  /\ storeCall.ttlMs = Undefined
  /\ Len(map) = 2
  /\ map[1].expiresAt # Undefined

\* C26: after every sequence of get / set / delete / deleteByPrefix on a store
\* of capacity maxSize the number of entries is at most max(maxSize, 1), and
\* immediately after set(k, v) the key k is present with value v: the entry
\* just set is never evicted by its own insertion, also when maxSize = 0,
\* where the store holds at most one entry at a time.
C26_CapacityBound ==
  /\ Len(map) <= (IF cacheOpts.maxSize >= 1 THEN cacheOpts.maxSize ELSE 1)
  /\ Cardinality(KeysOf(map)) = Len(map)
  /\ storeCall.op = "set"
       => \E i \in 1..Len(map) :
            map[i].key = storeCall.key /\ map[i].value = storeCall.value

C26_Witness ==
  /\ cacheOpts.maxSize = 0
  /\ storeCall.op = "set"
  /\ ~storeCall.present
  /\ storeCall.sizeBefore = 1
  /\ Len(storeCall.removed) = 1
  /\ map # <<>>
  /\ map[1].key = storeCall.key

\* p is an initial segment of the key k.
IsPrefixOf(p, k) == Len(p) <= Len(k) /\ \A i \in 1..Len(p) : p[i] = k[i]

\* C27: deleteByPrefix(p) removes exactly the keys that start with p and
\* leaves every other entry (value, expiry, relative order) unchanged;
\* delete(k) removes only k and is a no-op when k is absent.
C27_DeleteFrame ==
  [][ /\ storeCall'.op = "deleteByPrefix"
        => LET Stays(e) == ~IsPrefixOf(storeCall'.key, e.key)
           IN map' = SelectSeq(map, Stays)
      /\ storeCall'.op = "delete"
        => map' = (IF HasKey(map, storeCall'.key)
                     THEN RemoveAt(map, IndexOf(map, storeCall'.key))
                     ELSE map) ]_vars

C27_Witness ==
  /\ storeCall.op = "deleteByPrefix"
  /\ storeCall.key = KeyA
  /\ storeCall.removed = <<KeyAB, KeyA>>
  /\ map = <<>>

\* ---------------------------------------------------------------------------
\* stableStringify on values with shared and circular references: a heap of
\* HeapSize objects and arrays, each with two properties or items that are a
\* number or a reference to an object or array of the heap; the value
\* serialized is the first one.
\* ---------------------------------------------------------------------------
HeapSize == 2

MaxStringifyCalls == 2

Refs == {JsRef(i) : i \in 1..HeapSize}

FirstValues == {JsNum(1)} \cup Refs

SecondValues == {JsNum(2)} \cup Refs

\* <<"arr", x, y>> stands for [x, y], <<"obj", x, y>> for { b: x, a: y } and
\* <<"inst", x, y>> for a class instance with the properties b: x and a: y.
NodeChoices == {"arr", "obj", "inst"} \X FirstValues \X SecondValues

NodeOf(choice) ==
  LET props == <<[k |-> <<"b">>, v |-> choice[2]], [k |-> <<"a">>, v |-> choice[3]]>>
  IN CASE choice[1] = "arr" -> JsArr(<<choice[2], choice[3]>>)
       [] choice[1] = "obj" -> JsObj(props)
       [] choice[1] = "inst" -> JsInst(props)

HeapChoices == [1..HeapSize -> NodeChoices]

HeapOf(choices) == [i \in 1..HeapSize |-> NodeOf(choices[i])]

Root == JsRef(1)

InitStringify ==
  /\ options = [noRetryIfRateLimited |-> Undefined, maxRetries |-> Undefined,
                retryOnStatuses |-> Undefined, retryInitialDelayMs |-> Undefined]
  /\ delay = NoDelay
  /\ pc = "idle"
  /\ attempt = 0
  /\ calls = 0
  /\ log = <<>>
  /\ outcome = NoOutcome
  /\ response = NoResponse
  /\ cacheOpts = BaseCacheOpts
  /\ map = <<>>
  /\ now = 0
  /\ call = NoCall
  /\ storeCall = NoStoreCall
  /\ recency = <<>>
  /\ stringified = NoStringified
  /\ AuxIdle

StringifyFrame == UNCHANGED <<coreVars, recVars, storeCall, recency, auxVars>>

\* stableStringify(value), value being the first object or array of heap.
StableStringify(value) ==
  /\ ~stringified.done
  /\ stringified' = [done |-> TRUE, value |-> value, calls |-> 1,
                     result |-> stableStringifyIn(HeapOf(value), Root)]
  /\ StringifyFrame

\* stableStringify is called on the same value once more.
StableStringifyAgain ==
  /\ stringified.done
  /\ stringified.calls < MaxStringifyCalls
  /\ stringified' = [stringified EXCEPT
                       !.calls = @ + 1,
                       !.result = stableStringifyIn(HeapOf(stringified.value), Root)]
  /\ StringifyFrame

StableStringifyAny ==
  /\ ~stringified.done
  /\ \E value \in HeapChoices : StableStringify(value)

NextStringify == StableStringifyAny \/ StableStringifyAgain

SpecStringify == InitStringify /\ [][NextStringify]_vars

\* ---------------------------------------------------------------------------
\* Properties of stableStringify (checked under SpecStringify)
\* ---------------------------------------------------------------------------
\* The properties' values or the items of an object or array.
ChildrenOf(node) ==
  IF node.t = "arr" THEN node.v ELSE [j \in 1..Len(node.v) |-> node.v[j].v]

\* The objects and arrays the object or array i refers to.
Successors(heap, i) ==
  {ChildrenOf(heap[i])[j].v : j \in {j \in 1..Len(ChildrenOf(heap[i])) :
                                       ChildrenOf(heap[i])[j].t = "ref"}}

\* The objects and arrays reachable from those of S, S included.
RECURSIVE Reachable(_, _)
Reachable(heap, S) ==
  LET T == S \cup UNION {Successors(heap, i) : i \in S}
  IN IF T = S THEN S ELSE Reachable(heap, T)

\* Some object or array of the value is reachable from itself.
Circular(heap) ==
  \E i \in Reachable(heap, {1}) : i \in Reachable(heap, Successors(heap, i))

\* The plain objects and arrays that normalize visits after those of S: the
\* ones a plain object or array of S refers to.
PlainSuccessors(heap, i) ==
  IF NonPlain(heap[i]) THEN {}
  ELSE {j \in Successors(heap, i) : ~NonPlain(heap[j])}

RECURSIVE PlainReachable(_, _)
PlainReachable(heap, S) ==
  LET T == S \cup UNION {PlainSuccessors(heap, i) : i \in S}
  IN IF T = S THEN S ELSE PlainReachable(heap, T)

\* The value is a plain object or array, and some plain object or array that
\* it reaches through plain objects and arrays is reachable from itself
\* through plain objects and arrays.
PlainCircular(heap) ==
  /\ ~NonPlain(heap[1])
  /\ \E i \in PlainReachable(heap, {1}) :
       i \in PlainReachable(heap, PlainSuccessors(heap, i))

\* The value is made of plain objects, arrays and primitives only.
PlainData(heap) == \A i \in Reachable(heap, {1}) : ~NonPlain(heap[i])

Serialized(result) == result \notin {ThrownTypeError, ThrownJsonTypeError}

\* The heap with the properties of the plain objects in S inserted in the
\* opposite order.
Reordered(heap, S) ==
  [i \in 1..HeapSize |->
     IF i \in S /\ heap[i].t = "obj"
       THEN JsObj(<<heap[i].v[2], heap[i].v[1]>>)
       ELSE heap[i]]

\* The value written in place, for a value without circular references.
RECURSIVE InPlace(_, _)
InPlace(heap, val) ==
  IF val.t = "ref" THEN InPlace(heap, heap[val.v])
  ELSE IF val.t = "arr" THEN JsArr([j \in 1..Len(val.v) |-> InPlace(heap, val.v[j])])
  ELSE IF val.t = "obj"
    THEN JsObj([j \in 1..Len(val.v) |-> [k |-> val.v[j].k, v |-> InPlace(heap, val.v[j].v)]])
  ELSE val

\* C28: for every plain-object value p and every p' that differs from p only
\* in the insertion order of properties, at any nesting level and also inside
\* arrays, stableStringify(p) = stableStringify(p'), and the listKey and
\* recordKey built from p and from p' are the same string.
C28_OrderInsensitive ==
  (stringified.done /\ PlainData(HeapOf(stringified.value))
     /\ Serialized(stringified.result))
  => \A S \in SUBSET (1..HeapSize) :
       LET p == HeapOf(stringified.value)
           q == Reordered(p, S)
       IN /\ stableStringifyIn(q, Root) = stringified.result
          /\ stableStringify(InPlace(q, Root)) = stringified.result
          /\ listKey(baseId, TableT, Some(InPlace(q, Root)))
               = listKey(baseId, TableT, Some(InPlace(p, Root)))
          /\ recordKey(baseId, TableT, RecR, Some(InPlace(q, Root)))
               = recordKey(baseId, TableT, RecR, Some(InPlace(p, Root)))
          /\ listKey(baseId, TableT, Some(InPlace(p, Root)))
               = tablePrefix(baseId, TableT) \o stringified.result

C28_Witness ==
  /\ stringified.done
  /\ stringified.value[1] = <<"obj", JsRef(2), JsNum(2)>>
  /\ stringified.value[2] = <<"obj", JsNum(1), JsNum(2)>>
  /\ stringified.result
       = <<"{", "\"", "a", "\"", ":", "2", ",", "\"", "b", "\"", ":",
           "{", "\"", "a", "\"", ":", "2", ",", "\"", "b", "\"", ":", "1", "}", "}">>

C30_SharedSerializes ==
  (stringified.done /\ ~Circular(HeapOf(stringified.value)))
  => Serialized(stringified.result)

\* ---------------------------------------------------------------------------
\* Several records clients on one store: each client is bound to a base and
\* has its own method toggles; the store (map) is the same for all of them.
\* The transport answers a read of (base, table) with that table's own data,
\* Origin(base, table).
\* ---------------------------------------------------------------------------
BaseA == <<"a">>

BaseAB == <<"a", ":", "b">>

Bases == {BaseA, BaseAB}

TableB == <<"b">>

TableC == <<"c">>

SharedTables == {TableB, TableC}

RecCR == <<"c", ":", "r">>

SharedRecordIds == {RecR, RecCR}

Pairs == Bases \X SharedTables

Origin(base, table) ==
  CHOOSE n \in 1..Cardinality(Pairs) :
    n = Cardinality({p \in Pairs : StrLess(p[1] \o <<":">> \o p[2], base \o <<":">> \o table)}) + 1

MethodsChoices == {Undefined, Some(FALSE)}

InitShared ==
  /\ options = [noRetryIfRateLimited |-> Undefined, maxRetries |-> Undefined,
                retryOnStatuses |-> Undefined, retryInitialDelayMs |-> Undefined]
  /\ delay = NoDelay
  /\ UtilIdle
  /\ pc = "idle"
  /\ attempt = 0
  /\ calls = 0
  /\ log = <<>>
  /\ outcome = NoOutcome
  /\ response = NoResponse
  /\ cacheOpts = BaseCacheOpts
  /\ map = <<>>
  /\ now = 0
  /\ call = NoCall

\* The next calls are made by a client constructed with baseId = base, the
\* shared store and methods: { listRecords: reads, getRecord: reads }.
UseClient(base, reads) ==
  /\ call = NoCall
  /\ client' = [base |-> base]
  /\ cacheOpts' = [BaseCacheOpts EXCEPT !.listRecords = reads, !.getRecord = reads]
  /\ UNCHANGED <<coreVars, storeCall, recency, stringified, paging, memo, tasks,
                 map, now, call>>

SharedRead(op, tableIdOrName, ids, toggle, key) ==
  /\ LET shouldCache == hasStore /\ Nullish(toggle, TRUE)
         r == CachedRead(op, tableIdOrName, ids, Undefined, shouldCache, key,
                         FALSE, FALSE, Origin(client.base, tableIdOrName))
     IN /\ map' = r.st.map
        /\ call' = r.call
  /\ UNCHANGED <<coreVars, utilVars, cacheOpts, now>>

SharedListRecords(tableIdOrName) ==
  SharedRead("listRecords", tableIdOrName, <<>>, cacheOpts.listRecords,
             listKey(client.base, tableIdOrName, Undefined))

SharedGetRecord(tableIdOrName, recordId) ==
  SharedRead("getRecord", tableIdOrName, <<recordId>>, cacheOpts.getRecord,
             recordKey(client.base, tableIdOrName, recordId, Undefined))

\* invalidateTable and invalidateRecord of the client in use.
SharedInvalidateTable(st, tableIdOrName) ==
  cacheDeleteByPrefix(st, tablePrefix(client.base, tableIdOrName), FALSE)

SharedInvalidateRecord(st, tableIdOrName, recordId) ==
  cacheDeleteByPrefix(st, recordPrefix(client.base, tableIdOrName, recordId), FALSE)

SharedCreateRecords(tableIdOrName) ==
  Mutation("createRecords", tableIdOrName, <<>>, 1, 0,
           SharedInvalidateTable(Progress(map), tableIdOrName))

SharedUpdateRecord(tableIdOrName, recordId) ==
  Mutation("updateRecord", tableIdOrName, <<recordId>>, 1, 0,
           SharedInvalidateRecord(SharedInvalidateTable(Progress(map), tableIdOrName),
                                  tableIdOrName, recordId))

\* updateRecords with performUpsert for one input record: the remote matches
\* the record by its merge fields, not by the id of the input, and reports the
\* record it updated in updatedRecords; the client invalidates the table and
\* records.map(r => r.id).
SharedUpsertRecords(tableIdOrName, inputId, updatedId) ==
  LET st == SharedInvalidateRecord(SharedInvalidateTable(Progress(map), tableIdOrName),
                                   tableIdOrName, inputId)
  IN /\ call' = [op |-> "updateRecords", table |-> tableIdOrName, ids |-> <<inputId>>,
                  params |-> Undefined,
                  kind |-> IF st.thrown THEN "rejected" ELSE "resolved",
                  value |-> 0, error |-> IF st.thrown THEN "CacheError" ELSE "none",
                  transportCalls |-> 1,
                  storeCalls |-> st.storeCalls, onErrors |-> st.onErrors,
                  at |-> now, before |-> map,
                  updatedRecords |-> <<updatedId>>]
     /\ map' = st.map
     /\ UNCHANGED <<coreVars, utilVars, cacheOpts, now>>

UseClientAny ==
  \E base \in Bases, reads \in MethodsChoices : UseClient(base, reads)

SharedCallAny ==
  /\ call = NoCall
  /\ client # NoClient
  /\ \E t \in SharedTables, r \in SharedRecordIds :
       \/ SharedListRecords(t)
       \/ SharedGetRecord(t, r)
       \/ SharedCreateRecords(t)
       \/ SharedUpdateRecord(t, r)
       \/ \E updated \in SharedRecordIds : SharedUpsertRecords(t, r, updated)

NextShared == UseClientAny \/ SharedCallAny \/ Return

SpecShared == InitShared /\ [][NextShared]_vars

\* C31: with one cache store shared by clients bound to different bases and
\* used for different tables, a read for (base1, table1) never returns a value
\* that was cached for a different (base2, table2), and a mutation on
\* (base1, table1) never removes a cache entry that belongs to a different
\* (base2, table2), for all base and table identifier strings.
C31_NamespacedByBaseAndTable ==
  (client # NoClient /\ call # NoCall)
  => /\ (call.op \in Reads /\ call.kind = "resolved")
          => call.value = Origin(client.base, call.table)
     /\ call.op \in Mutations
          => \A i \in 1..Len(call.before) :
               call.before[i].value # Origin(client.base, call.table)
                 => HasKey(map, call.before[i].key)

\* The prefixes a completed mutation of the client in use has to invalidate.
InvalidatedPrefixes ==
  {tablePrefix(client.base, call.table)}
    \cup {recordPrefix(client.base, call.table, call.ids[j]) : j \in 1..Len(call.ids)}

TogglesOff ==
  ~Nullish(cacheOpts.listRecords, TRUE) /\ ~Nullish(cacheOpts.getRecord, TRUE)

\* C40: invalidation by a mutation does not depend on the per-method cache
\* toggles: on a store with deleteByPrefix a successful mutation of a client
\* with methods.listRecords and methods.getRecord both false still calls
\* deleteByPrefix with its table prefix and with the record prefix of each
\* record it names, and every entry under those prefixes, written to the
\* shared store by another client, is gone afterwards.
C40_InvalidationIgnoresToggles ==
  (client # NoClient /\ call # NoCall /\ call.op \in Mutations /\ call.kind = "resolved"
     /\ hasDeleteByPrefix /\ TogglesOff)
  => /\ \A p \in InvalidatedPrefixes :
          \E i \in 1..Len(call.storeCalls) :
            call.storeCalls[i] = StoreCall("deleteByPrefix", p, Undefined, FALSE)
     /\ \A i \in 1..Len(call.before) :
          (\E p \in InvalidatedPrefixes : IsPrefixOf(p, call.before[i].key))
            => ~HasKey(map, call.before[i].key)

\* An updateRecord by a client with both toggles off removed a list entry and
\* a record entry that another client had cached.
C40_Witness ==
  /\ client # NoClient /\ call # NoCall /\ call.op = "updateRecord"
  /\ call.kind = "resolved" /\ TogglesOff
  /\ Len(call.storeCalls) = 2
  /\ \E i, j \in 1..Len(call.before) :
       /\ call.before[i].key = listKey(client.base, call.table, Undefined)
       /\ call.before[j].key = recordKey(client.base, call.table, call.ids[1], Undefined)
       /\ ~HasKey(map, call.before[i].key)
       /\ ~HasKey(map, call.before[j].key)

\* C39: after updateRecords with performUpsert has returned successfully, no
\* cached getRecord entry remains in the store for a record that the remote
\* reports in updatedRecords.
C39_UpsertInvalidatesUpdated ==
  (client # NoClient /\ call # NoCall /\ call.op = "updateRecords" /\ call.kind = "resolved")
  => \A j \in 1..Len(call.updatedRecords) :
       \A i \in 1..Len(map) :
         ~IsPrefixOf(recordPrefix(client.base, call.table, call.updatedRecords[j]), map[i].key)

\* ---------------------------------------------------------------------------
\* listAllRecords and iterateRecords: one listRecords call per page.  The
\* remote answers a page request with a number of records and, unless it is
\* the last page, a cursor; Page(n, more) is such an answer as the value that
\* listRecords returns and caches.
\* ---------------------------------------------------------------------------
MaxPages == 3

MaxPageRecords == 2

MaxMaxRecords == 3

Page(records, more) == 1 + 2 * records + (IF more THEN 1 ELSE 0)

PageRecords(page) == (page - 1) \div 2

\* page.offset of the k-th page: a cursor, or undefined on the last page.
PageOffset(page, k) == IF (page - 1) % 2 = 1 THEN Some(NumToStr(k)) ELSE Undefined

MaxRecordsChoices == {Undefined} \cup {Some(n) : n \in 0..MaxMaxRecords}

\* { ...(params ?? {}), offset }
pageParams(maxRecords, offset) ==
  JsObj((IF maxRecords = Undefined THEN <<>>
         ELSE <<[k |-> <<"m", "a", "x", "R", "e", "c", "o", "r", "d", "s">>,
                 v |-> JsNum(maxRecords[1])]>>)
        \o <<[k |-> <<"o", "f", "f", "s", "e", "t">>,
              v |-> IF offset = Undefined THEN JsUndefined ELSE JsStr(offset[1])]>>)

PagesCacheOpts ==
  {[BaseCacheOpts EXCEPT !.store = "none"]}
    \cup {[BaseCacheOpts EXCEPT !.listRecords = l, !.listAllRecords = a] :
            l \in OptBool, a \in {Undefined, Some(FALSE)}}

InitPages ==
  /\ options = [noRetryIfRateLimited |-> Undefined, maxRetries |-> Undefined,
                retryOnStatuses |-> Undefined, retryInitialDelayMs |-> Undefined]
  /\ delay = NoDelay
  /\ UtilIdle
  /\ pc = "idle"
  /\ attempt = 0
  /\ calls = 0
  /\ log = <<>>
  /\ outcome = NoOutcome
  /\ response = NoResponse
  /\ cacheOpts \in PagesCacheOpts
  /\ map = <<>>
  /\ now = 0
  /\ call = NoCall

PagesFrame ==
  UNCHANGED <<coreVars, storeCall, recency, stringified, client, memo, tasks,
              cacheOpts, now, call>>

\* listAllRecords / iterateRecords up to the first listRecords call.
StartPaging(op, tableIdOrName, maxRecords) ==
  /\ paging = NoPaging
  /\ paging' = [op |-> op, table |-> tableIdOrName, maxRecords |-> maxRecords,
                offset |-> Undefined, count |-> 0, requests |-> 0,
                transportCalls |-> 0, storeCalls |-> <<>>,
                pc |-> "loop", returned |-> 0]
  /\ UNCHANGED map
  /\ PagesFrame

\* this.listRecords(tableIdOrName, pageParams), fetched being the remote's
\* answer if the transport is called (0: an AirtableError).
listRecordsPage(fetched) ==
  LET shouldCache == hasStore /\ Nullish(cacheOpts.listRecords, TRUE)
      params == Some(pageParams(paging.maxRecords, paging.offset))
  IN CachedRead("listRecords", paging.table, <<>>, params, shouldCache,
                IF shouldCache THEN listKey(baseId, paging.table, params) ELSE Undefined,
                FALSE, FALSE, fetched)

\* Where the call stands after a page: [count, pc, returned, offset].
\* listAllRecords: all.push(...page.records), the maxRecords check, the cursor.
listAllRecordsStep(page, k) ==
  LET all == paging.count + PageRecords(page)
      maxRecords == paging.maxRecords
  IN IF maxRecords # Undefined /\ all >= maxRecords[1]
       THEN [count |-> all, pc |-> "done", returned |-> maxRecords[1], offset |-> paging.offset]
     ELSE IF PageOffset(page, k) # Undefined
       THEN [count |-> all, pc |-> "loop", returned |-> 0, offset |-> PageOffset(page, k)]
     ELSE [count |-> all, pc |-> "done", returned |-> all, offset |-> Undefined]

\* iterateRecords: each record of the page is yielded, and after the yield
\* the maxRecords check is made.
RECURSIVE Yield(_, _, _)
Yield(yielded, left, maxRecords) ==
  IF left = 0 THEN [yielded |-> yielded, returned |-> FALSE]
  ELSE IF maxRecords # Undefined /\ yielded + 1 >= maxRecords[1]
    THEN [yielded |-> yielded + 1, returned |-> TRUE]
  ELSE Yield(yielded + 1, left - 1, maxRecords)

iterateRecordsStep(page, k) ==
  LET y == Yield(paging.count, PageRecords(page), paging.maxRecords)
  IN IF y.returned
       THEN [count |-> y.yielded, pc |-> "done", returned |-> y.yielded, offset |-> paging.offset]
     ELSE IF PageOffset(page, k) # Undefined
       THEN [count |-> y.yielded, pc |-> "loop", returned |-> 0, offset |-> PageOffset(page, k)]
     ELSE [count |-> y.yielded, pc |-> "done", returned |-> y.yielded, offset |-> Undefined]

\* One turn of the do ... while loop: the page is requested and taken in.
NextPage(fetched) ==
  /\ paging # NoPaging
  /\ paging.pc = "loop"
  /\ LET r == listRecordsPage(fetched)
         k == paging.requests + 1
         after == IF paging.op = "listAllRecords"
                    THEN listAllRecordsStep(r.call.value, k)
                    ELSE iterateRecordsStep(r.call.value, k)
         common == [paging EXCEPT
                      !.requests = k,
                      !.transportCalls = @ + r.call.transportCalls,
                      !.storeCalls = @ \o r.call.storeCalls]
     IN /\ map' = r.st.map
        /\ paging' = IF r.call.kind = "rejected"
                       THEN [common EXCEPT !.pc = "rejected"]
                       ELSE [common EXCEPT !.count = after.count, !.pc = after.pc,
                                           !.returned = after.returned,
                                           !.offset = after.offset]
  /\ PagesFrame

StartPagingAny ==
  /\ paging = NoPaging
  /\ \E op \in {"listAllRecords", "iterateRecords"}, m \in MaxRecordsChoices :
       StartPaging(op, TableT, m)

\* The remote has at most MaxPages pages.
NextPageAny ==
  /\ paging # NoPaging
  /\ paging.pc = "loop"
  /\ \/ NextPage(0)
     \/ \E n \in 0..MaxPageRecords, more \in BOOLEAN :
          /\ more => paging.requests + 1 < MaxPages
          /\ NextPage(Page(n, more))

NextPages == StartPagingAny \/ NextPageAny

SpecPages == InitPages /\ [][NextPages]_vars

\* C32: listAllRecords and iterateRecords request pages one at a time through
\* listRecords, passing each page's returned offset to the next request, and
\* stop as soon as a page carries no offset or the caller's maxRecords cap has
\* been reached: for every maxRecords >= 0 they never return or yield more
\* than maxRecords records and request no page after the cap is reached.
C32_PagingWithinCap ==
  (paging # NoPaging /\ paging.maxRecords # Undefined)
  => /\ paging.pc = "done" => paging.returned <= paging.maxRecords[1]
     /\ paging.op = "iterateRecords" => paging.count <= paging.maxRecords[1]
     /\ (paging.pc = "loop" /\ paging.requests > 0)
          => paging.count < paging.maxRecords[1]

\* C34: the methods.listAllRecords toggle controls caching of listAllRecords:
\* when it is enabled the entire aggregated result of listAllRecords is cached
\* under a single key, and when it is false listAllRecords performs no cache
\* read or write.
C34_ListAllRecordsToggle ==
  (paging # NoPaging /\ paging.op = "listAllRecords" /\ paging.pc = "done" /\ hasStore)
  => IF Nullish(cacheOpts.listAllRecords, TRUE)
       THEN Cardinality({paging.storeCalls[i].arg : i \in
                           {i \in 1..Len(paging.storeCalls) :
                              paging.storeCalls[i].method = "set"}}) = 1
       ELSE paging.storeCalls = <<>>

\* ---------------------------------------------------------------------------
\* InMemoryCacheStore.transformAttachment: the store remembers, for each
\* attachment id, the first attachment object it was given (memo.seen) and
\* answers with that object.  An attachment object is [ref, id, url]: ref is
\* its identity, and two different objects may carry the same id.
\* ---------------------------------------------------------------------------
NumAttachments == 4

MaxAttachmentCalls == 3

AttachmentIds == <<"att1", "attA">>

Attachments ==
  {[ref |-> n, id |-> AttachmentIds[(n % 2) + 1], url |-> n] : n \in 1..NumAttachments}

Contexts == {"ctx1", "ctx2"}

Memoized(seen, id) == \E i \in 1..Len(seen) : seen[i].id = id

\* Mutant: the attachment passed in is returned, memoized or not.
transformAttachment_ReturnsArgument(seen, attachment, ctx) ==
  [seen |-> IF Memoized(seen, attachment.id) THEN seen ELSE Append(seen, attachment),
   result |-> attachment]

transformAttachment(seen, attachment, ctx) ==
  IF Memoized(seen, attachment.id)
    THEN [seen |-> seen,
          result |-> seen[CHOOSE i \in 1..Len(seen) : seen[i].id = attachment.id]]
    ELSE [seen |-> Append(seen, attachment), result |-> attachment]

InitAttachments ==
  /\ options = [noRetryIfRateLimited |-> Undefined, maxRetries |-> Undefined,
                retryOnStatuses |-> Undefined, retryInitialDelayMs |-> Undefined]
  /\ delay = NoDelay
  /\ UtilIdle
  /\ pc = "idle"
  /\ attempt = 0
  /\ calls = 0
  /\ log = <<>>
  /\ outcome = NoOutcome
  /\ response = NoResponse
  /\ cacheOpts = BaseCacheOpts
  /\ map = <<>>
  /\ now = 0
  /\ call = NoCall

TransformAttachment(attachment, ctx) ==
  /\ LET r == transformAttachment(memo.seen, attachment, ctx)
     IN memo' = [seen |-> r.seen,
                 history |-> Append(memo.history,
                                    [attachment |-> attachment, ctx |-> ctx,
                                     result |-> r.result])]
  /\ UNCHANGED <<coreVars, recVars, storeCall, recency, stringified, client, paging, tasks>>

TransformAttachmentAny ==
  /\ Len(memo.history) < MaxAttachmentCalls
  /\ \E attachment \in Attachments, ctx \in Contexts :
       TransformAttachment(attachment, ctx)

NextAttachments == TransformAttachmentAny

SpecAttachments == InitAttachments /\ [][NextAttachments]_vars

\* The first call with the attachment id of the i-th call.
FirstWithId(history, i) ==
  CHOOSE j \in 1..i :
    /\ history[j].attachment.id = history[i].attachment.id
    /\ \A k \in 1..(j - 1) : history[k].attachment.id # history[i].attachment.id

\* C33: for any sequence of transformAttachment calls on one
\* InMemoryCacheStore instance, a call with an attachment of identifier X
\* returns the first attachment object ever passed with identifier X (same
\* object identity, original fields), regardless of the context argument and
\* of the fields of later attachments with that identifier; attachments with
\* different identifiers never share a result.
C33_FirstAttachmentWins ==
  \A i \in 1..Len(memo.history) :
    /\ memo.history[i].result
         = memo.history[FirstWithId(memo.history, i)].attachment
    /\ \A j \in 1..Len(memo.history) :
         memo.history[i].attachment.id # memo.history[j].attachment.id
           => memo.history[i].result.ref # memo.history[j].result.ref

C33_Witness ==
  /\ Len(memo.history) = 3
  /\ memo.history[1].attachment.id = memo.history[3].attachment.id
  /\ memo.history[2].attachment.id # memo.history[1].attachment.id
  /\ memo.history[3].attachment.ref # memo.history[1].attachment.ref
  /\ memo.history[3].ctx # memo.history[1].ctx
  /\ memo.history[3].result.ref = memo.history[1].attachment.ref
  /\ memo.history[3].result.url # memo.history[3].attachment.url

\* ---------------------------------------------------------------------------
\* Calls of one client in progress side by side on an asynchronous store.  A
\* call runs from one await to the next in one step: the store's get, the
\* transport call, the store's set, and the completion of each deleteByPrefix.
\* Every step takes the next number of tasks.clock; the n-th step's transport
\* call answers a read with the value n, and tasks.updatedAt is the number of
\* the latest write the remote applied.
\* ---------------------------------------------------------------------------
RecS == <<"s">>

\* records.length of an input of two batches.
TwoBatches == MAX_RECORDS_PER_BATCH + 1

Repeat(x, n) == [i \in 1..n |-> x]

Task(op, ids, records) ==
  [op |-> op, table |-> TableB, ids |-> ids, records |-> records,
   pc |-> "start", kind |-> "pending", error |-> "none", value |-> 0,
   got |-> 0, requested |-> 0, sent |-> 0, fetched |-> 0, setAt |-> 0,
   initiated |-> <<>>, initiatedAt |-> 0, pending |-> <<>>,
   threw |-> FALSE, last |-> <<>>, settledAt |-> 0]

Scenarios ==
  {<<Task("getRecord", <<RecR>>, 0), Task("getRecord", <<RecR>>, 0)>>,
   <<Task("listRecords", <<>>, 0), Task("listRecords", <<>>, 0)>>,
   <<Task("getRecord", <<RecR>>, 0), Task("updateRecord", <<RecR>>, 1)>>,
   <<Task("getRecord", <<RecS>>, 0), Task("deleteRecord", <<RecR>>, 1)>>,
   <<Task("listRecords", <<>>, 0), Task("updateRecords", <<RecR, RecS>>, 2)>>,
   <<Task("getRecord", <<RecS>>, 0), Task("deleteRecords", <<RecS, RecR>>, 2)>>,
   <<Task("createRecords", <<>>, TwoBatches)>>,
   <<Task("updateRecords", Repeat(RecR, TwoBatches), TwoBatches)>>,
   <<Task("deleteRecords", Repeat(RecR, MAX_RECORDS_PER_BATCH) \o <<RecS>>, TwoBatches)>>}

AsyncCacheOpts ==
  {[BaseCacheOpts EXCEPT !.store = "custom", !.failOnCacheError = f] :
     f \in {Undefined, Some(TRUE)}}

InitAsync ==
  /\ options = [noRetryIfRateLimited |-> Undefined, maxRetries |-> Undefined,
                retryOnStatuses |-> Undefined, retryInitialDelayMs |-> Undefined]
  /\ delay = NoDelay
  /\ storeCall = NoStoreCall
  /\ recency = <<>>
  /\ stringified = NoStringified
  /\ paging = NoPaging
  /\ memo = NoMemo
  /\ pc = "idle"
  /\ attempt = 0
  /\ calls = 0
  /\ log = <<>>
  /\ outcome = NoOutcome
  /\ response = NoResponse
  /\ client = [base |-> BaseA]
  /\ cacheOpts \in AsyncCacheOpts
  /\ map = <<>>
  /\ now = 0
  /\ call = NoCall
  /\ tasks = NoTasks

AsyncFrame ==
  UNCHANGED <<coreVars, storeCall, recency, stringified, client, paging, memo,
              cacheOpts, now, call>>

\* const shouldCache = !!this.cache && (cacheOpts?.methods?.<op> ?? true)
TaskShouldCache(p) ==
  hasStore /\ Nullish(IF p.op = "listRecords" THEN cacheOpts.listRecords
                      ELSE cacheOpts.getRecord, TRUE)

TaskKey(p) ==
  IF p.op = "listRecords" THEN listKey(client.base, p.table, Undefined)
  ELSE recordKey(client.base, p.table, p.ids[1], Undefined)

\* The calls are made one after the other without awaiting: each runs to its
\* first await.
Started(p) ==
  [p EXCEPT !.pc = IF p.op \in Reads /\ TaskShouldCache(p) THEN "get" ELSE "request"]

StartTasks(procs) ==
  /\ tasks = NoTasks
  /\ tasks' = [tasks EXCEPT !.procs = [i \in 1..Len(procs) |-> Started(procs[i])]]
  /\ map' = map
  /\ AsyncFrame

Settled(p, kind, error, value, n) ==
  [p EXCEPT !.pc = "done", !.kind = kind, !.error = error, !.value = value, !.settledAt = n]

\* const cached = await this.cacheGet(key); if (cached) return cached
afterCacheGet(p, cached, n) ==
  IF cached # Undefined
    THEN Settled([p EXCEPT !.got = n], "resolved", "none", cached[1], n)
    ELSE [p EXCEPT !.got = n, !.pc = "request"]

\* The deleteByPrefix calls a mutation starts after its last transport call,
\* in the order it starts them: Promise.all([invalidateTable(table),
\* invalidateRecord(s)(table, ids)]) runs every cacheDeleteByPrefix up to its
\* await of the store's promise before the mutation awaits any of them.
Initiate_TableOnly(p) ==
  IF ~hasDeleteByPrefix THEN <<>>
  ELSE <<tablePrefix(client.base, p.table)>>

Initiate(p) ==
  IF ~hasDeleteByPrefix THEN <<>>
  ELSE <<tablePrefix(client.base, p.table)>>
         \o [j \in 1..Len(p.ids) |-> recordPrefix(client.base, p.table, p.ids[j])]

Invalidating(p, started, n) ==
  IF started = <<>> THEN Settled(p, "resolved", "none", 0, n)
  ELSE [p EXCEPT !.pc = "invalidate", !.initiated = started, !.initiatedAt = n,
                 !.pending = started]

\* Mutant: a failed batch is followed by the invalidation.
afterRequest_InvalidatesOnFailure(p, ok, n) ==
  IF p.op \in Reads
    THEN IF ~ok THEN Settled([p EXCEPT !.requested = n, !.sent = @ + 1],
                             "rejected", "AirtableError", 0, n)
         ELSE IF TaskShouldCache(p)
                THEN [p EXCEPT !.requested = n, !.sent = @ + 1, !.fetched = n, !.pc = "set"]
         ELSE Settled([p EXCEPT !.requested = n, !.sent = @ + 1, !.fetched = n],
                      "resolved", "none", n, n)
  ELSE LET q == [p EXCEPT !.requested = n, !.sent = @ + 1]
       IN IF ok /\ q.sent < Batches(p.records) THEN q
          ELSE Invalidating(q, Initiate(q), n)

\* await this.core.requestJson(...): a read's GET, or the next batch of a
\* mutation; a failure rejects the call there and then.
afterRequest(p, ok, n) ==
  IF p.op \in Reads
    THEN IF ~ok THEN Settled([p EXCEPT !.requested = n, !.sent = @ + 1],
                             "rejected", "AirtableError", 0, n)
         ELSE IF TaskShouldCache(p)
                THEN [p EXCEPT !.requested = n, !.sent = @ + 1, !.fetched = n, !.pc = "set"]
         ELSE Settled([p EXCEPT !.requested = n, !.sent = @ + 1, !.fetched = n],
                      "resolved", "none", n, n)
  ELSE LET q == [p EXCEPT !.requested = n, !.sent = @ + 1]
       IN IF ~ok THEN Settled(q, "rejected", "AirtableError", 0, n)
          ELSE IF q.sent < Batches(p.records) THEN q
          ELSE Invalidating(q, Initiate(q), n)

\* await this.cacheSet(key, result); return result
afterCacheSet(p, n) ==
  Settled([p EXCEPT !.setAt = n], "resolved", "none", p.fetched, n)

RemoveFirst(s, x) ==
  IF \E i \in 1..Len(s) : s[i] = x
    THEN RemoveAt(s, CHOOSE i \in 1..Len(s) : s[i] = x /\ \A j \in 1..(i - 1) : s[j] # x)
    ELSE s

\* One of the store's deleteByPrefix promises settles.  A rejection goes to
\* handleCacheError; when that rethrows, Promise.all rejects and with it the
\* mutation, whatever is still pending.  The mutation resolves when the last
\* of its promises has settled.
afterDeleteByPrefix(p, prefix, throws, n) ==
  LET q == [p EXCEPT !.pending = RemoveFirst(@, prefix), !.last = prefix,
                     !.threw = @ \/ throws]
      rethrown == throws /\ handleCacheError(Progress(<<>>),
                                             [op |-> "delete", arg |-> prefix]).thrown
  IN IF p.kind # "pending" THEN q
     ELSE IF rethrown THEN Settled(q, "rejected", "CacheError", 0, n)
     ELSE IF q.pending = <<>> THEN Settled(q, "resolved", "none", 0, n)
     ELSE q

TasksStep(procs, updatedAt) ==
  tasks' = [procs |-> procs, clock |-> tasks.clock + 1, updatedAt |-> updatedAt]

AsyncCacheGet(i) ==
  /\ tasks.procs[i].pc = "get"
  /\ LET r == get(map, TaskKey(tasks.procs[i]), now)
     IN /\ map' = r.map
        /\ TasksStep([tasks.procs EXCEPT ![i] = afterCacheGet(@, r.value, tasks.clock + 1)],
                tasks.updatedAt)
  /\ AsyncFrame

AsyncRequest(i, ok) ==
  /\ tasks.procs[i].pc = "request"
  /\ TasksStep([tasks.procs EXCEPT ![i] = afterRequest(@, ok, tasks.clock + 1)],
          IF ok /\ tasks.procs[i].op \in Mutations THEN tasks.clock + 1
          ELSE tasks.updatedAt)
  /\ map' = map
  /\ AsyncFrame

AsyncCacheSet(i) ==
  /\ tasks.procs[i].pc = "set"
  /\ map' = set(map, cacheOpts.maxSize, TaskKey(tasks.procs[i]), tasks.procs[i].fetched,
                cacheOpts.defaultTtlMs, now)
  /\ TasksStep([tasks.procs EXCEPT ![i] = afterCacheSet(@, tasks.clock + 1)], tasks.updatedAt)
  /\ AsyncFrame

AsyncDeleteByPrefix(i, prefix, throws) ==
  /\ map' = IF throws THEN map ELSE deleteByPrefix(map, prefix)
  /\ TasksStep([tasks.procs EXCEPT ![i] = afterDeleteByPrefix(@, prefix, throws, tasks.clock + 1)],
          tasks.updatedAt)
  /\ AsyncFrame

StartTasksAny == \E procs \in Scenarios : StartTasks(procs)

AsyncStepAny ==
  \E i \in 1..Len(tasks.procs) :
    \/ AsyncCacheGet(i)
    \/ \E ok \in BOOLEAN : AsyncRequest(i, ok)
    \/ AsyncCacheSet(i)
    \/ \E k \in 1..Len(tasks.procs[i].pending), throws \in BOOLEAN :
         AsyncDeleteByPrefix(i, tasks.procs[i].pending[k], throws)

NextAsync == StartTasksAny \/ AsyncStepAny

SpecAsync == InitAsync /\ [][NextAsync]_vars

AllSettled == tasks.procs # <<>> /\ \A i \in 1..Len(tasks.procs) : tasks.procs[i].kind # "pending"

\* C35: in every interleaving of a getRecord(table, id) with an
\* updateRecord(table, id) running at the same time on an asynchronous store,
\* once both calls have returned (and no deleteByPrefix has failed) the store
\* holds no entry for that record whose value was fetched from the remote
\* before the update was applied.
C35_NoStaleEntryAfterUpdate ==
  \A i \in 1..Len(tasks.procs) :
    (/\ AllSettled
     /\ tasks.procs[i].op = "updateRecord"
     /\ tasks.procs[i].kind = "resolved"
     /\ ~tasks.procs[i].threw)
    => \A k \in 1..Len(map) :
         IsPrefixOf(recordPrefix(client.base, tasks.procs[i].table, tasks.procs[i].ids[1]),
                    map[k].key)
           => map[k].value >= tasks.updatedAt

\* The deleteByPrefix calls that the invalidation of a call consists of.
Expected(p) ==
  <<tablePrefix(client.base, p.table)>>
    \o [j \in 1..Len(p.ids) |-> recordPrefix(client.base, p.table, p.ids[j])]

MultiRecord(p) == p.op \in {"updateRecords", "deleteRecords"}

\* An updateRecords / deleteRecords call that has settled after all its
\* transport calls succeeded.
Invalidated(p) == MultiRecord(p) /\ p.kind # "pending" /\ p.error # "AirtableError"

\* C36 as stated: for updateRecords and deleteRecords on an asynchronous
\* store, the table-level deleteByPrefix and every per-record deleteByPrefix
\* have all been initiated, and all have completed, before the mutation's
\* promise settles, in every order of their completions and whether or not
\* some of them fail.
C36_Original ==
  \A i \in 1..Len(tasks.procs) :
    Invalidated(tasks.procs[i])
    => /\ tasks.procs[i].initiated = Expected(tasks.procs[i])
       /\ tasks.procs[i].pending = <<>>

\* C36, amended: for updateRecords and deleteRecords on an asynchronous store,
\* the table-level deleteByPrefix and every per-record deleteByPrefix have all
\* been initiated before the mutation's promise settles, in every order of
\* their completions and whether or not some of them fail; all of them have
\* also completed by then, except when failOnCacheError is set and one of
\* them fails: the promise then rejects at that failure while others may
\* still be in flight.
C36_AllInitiated ==
  \A i \in 1..Len(tasks.procs) :
    Invalidated(tasks.procs[i])
    => /\ tasks.procs[i].initiated = Expected(tasks.procs[i])
       /\ tasks.procs[i].initiatedAt # 0
       /\ tasks.procs[i].initiatedAt < tasks.procs[i].settledAt
       /\ tasks.procs[i].pending # <<>>
            => /\ Nullish(cacheOpts.failOnCacheError, FALSE)
               /\ tasks.procs[i].threw
               /\ tasks.procs[i].kind = "rejected"
               /\ tasks.procs[i].error = "CacheError"

\* An updateRecords of two records has resolved although one of its
\* deleteByPrefix calls failed; the table-level call, started first, was the
\* last to complete.
C36_Witness ==
  \E i \in 1..Len(tasks.procs) :
    /\ tasks.procs[i].op = "updateRecords"
    /\ tasks.procs[i].ids = <<RecR, RecS>>
    /\ tasks.procs[i].kind = "resolved"
    /\ tasks.procs[i].threw
    /\ tasks.procs[i].pending = <<>>
    /\ tasks.procs[i].last = tablePrefix(client.base, tasks.procs[i].table)

SameKeyReads(i, j) ==
  /\ i # j
  /\ tasks.procs[i].op \in Reads
  /\ tasks.procs[j].op = tasks.procs[i].op
  /\ tasks.procs[j].ids = tasks.procs[i].ids
  /\ tasks.procs[i].kind = "resolved" /\ tasks.procs[j].kind = "resolved"
  /\ tasks.procs[i].setAt # 0 /\ tasks.procs[j].setAt # 0

\* C37: two reads of the same key running at the same time on a cold cache
\* can both miss and both call the transport; each caller then receives the
\* result of its own transport call, and after both have completed the store
\* holds the value written by whichever store.set executed last.
C37_LastWriteWins ==
  \A i, j \in 1..Len(tasks.procs) :
    (SameKeyReads(i, j) /\ tasks.procs[i].setAt < tasks.procs[j].setAt)
    => /\ tasks.procs[i].value = tasks.procs[i].requested
       /\ tasks.procs[j].value = tasks.procs[j].requested
       /\ tasks.procs[i].value # tasks.procs[j].value
       /\ HasKey(map, TaskKey(tasks.procs[j]))
       /\ map[IndexOf(map, TaskKey(tasks.procs[j]))].value = tasks.procs[j].fetched

\* Both listRecords calls missed before either had written; the call whose
\* transport call was the earlier one wrote last.
C37_Witness ==
  \E i, j \in 1..Len(tasks.procs) :
    /\ SameKeyReads(i, j)
    /\ tasks.procs[i].op = "listRecords"
    /\ tasks.procs[i].setAt < tasks.procs[j].setAt
    /\ tasks.procs[j].got < tasks.procs[i].setAt
    /\ tasks.procs[j].requested < tasks.procs[i].requested

OrderedCall(p) ==
  /\ p.op \in Reads
       => /\ p.requested # 0 => (p.got # 0 /\ p.got < p.requested)
          /\ p.setAt # 0 => (p.requested # 0 /\ p.requested < p.setAt)
  /\ p.op \in Mutations
       => /\ p.initiated # <<>>
               => /\ p.sent = Batches(p.records)
                  /\ p.error # "AirtableError"
                  /\ p.initiatedAt = p.requested
          /\ p.error = "AirtableError"
               => /\ p.kind = "rejected"
                  /\ p.pc = "done"
                  /\ p.initiated = <<>>

\* A call that the transport has failed sends nothing more, and nothing of
\* its table is removed from the store by a call that failed.
StaysFailed ==
  \A i \in 1..Len(tasks.procs) :
    tasks.procs[i].error = "AirtableError"
    => /\ tasks'.procs[i].sent = tasks.procs[i].sent
       /\ (\A j \in 1..Len(tasks.procs) : j # i => ~(tasks.procs[j].op \in Mutations))
            => \A k \in 1..Len(map) : HasKey(map', map[k].key)

\* C38: within a mutation no deleteByPrefix is initiated before the last
\* transport call of the operation has succeeded, and within a read store.get
\* precedes the transport call, which precedes store.set; if a transport call
\* of a mutation fails (also a later batch of createRecords / updateRecords /
\* deleteRecords after earlier batches were written remotely), the error
\* propagates, no further batch is sent and no cache entry is invalidated.
C38_StepsInOrder ==
  /\ [](\A i \in 1..Len(tasks.procs) : OrderedCall(tasks.procs[i]))
  /\ [][StaysFailed]_vars

\* The second batch of a deleteRecords failed after the first had been applied.
C38_Witness ==
  \E i \in 1..Len(tasks.procs) :
    /\ tasks.procs[i].op = "deleteRecords"
    /\ tasks.procs[i].sent = 2
    /\ tasks.procs[i].error = "AirtableError"
    /\ tasks.procs[i].kind = "rejected"
    /\ tasks.updatedAt # 0

====
